---- MODULE Spec2Model ----
(***************************************************************************)
(* Model of the identity provider's authentication and OAuth core:         *)
(*   backend/src/controllers/auth.controller.ts   (login, refresh, logout) *)
(*   backend/src/controllers/oauth.controller.ts  (authorize, token)       *)
(*   backend/src/utils/jwt.ts                     (token codec, hashes)    *)
(*   backend/src/db/schema.ts                     (tables)                 *)
(*                                                                         *)
(* Strings that are built or parsed character by character (URLs, query    *)
(* strings, identifiers) are sequences of atoms; an atom is either a run   *)
(* of unreserved characters or one reserved character.  A value that may   *)
(* be absent is a sequence of length 0 or 1, or the empty string.          *)
(*                                                                         *)
(* Time is counted in ticks, TicksPerSecond ticks to the second, so that   *)
(* the millisecond clock of Date and the whole-second clock of the JWT     *)
(* library can disagree as they do in the program.                         *)
(***************************************************************************)
EXTENDS Integers, Sequences, FiniteSets, TLC

VARIABLES
    env,            \* process.env, fixed at start-up
    now,            \* the wall clock (ticks)
    users,          \* table users
    authCodes,      \* table auth_codes
    refreshTokens,  \* table refresh_tokens
    cookies,        \* the cookie jar of the user agent
    issued,         \* refresh tokens handed out so far, each with the code it was
                    \* exchanged for ("" for a login)
    tokenReq,       \* POST /oauth/token requests in flight, by slot
    refreshReq,     \* POST /auth/refresh requests in flight, by slot
    registerReq,    \* POST /auth/register requests in flight, by slot
    credentials,    \* the password each user chose, by user id (known to the
                    \* users, not stored by the program)
    last            \* the request last answered, with its response

vars == <<env, now, users, authCodes, refreshTokens, cookies, issued,
          tokenReq, refreshReq, registerReq, credentials, last>>

-----------------------------------------------------------------------------
(* Bounds of the model *)

TicksPerSecond == 2
MaxStart == 0
MaxCodes == 1
MaxSessions == 1
NumTokenReqs == 2
NumRefreshReqs == 1
NumRegisterReqs == 2
MaxRegistered == 2

-----------------------------------------------------------------------------
(* Program constants *)

ACCESS_TOKEN_EXPIRY == 3600
REFRESH_TOKEN_EXPIRY == 2592000
SALT_ROUNDS == 12
BcryptMaxBytes == 72
AuthCodeMinutes == 10
RefreshTokenDays == 30
AccessCookieMaxAge == 86400
RefreshCookieMaxAge == 2592000
ExpiresIn == 86400

Issuer == "accounts.shelfex.com"
Audience == "shelfex-services"
ACCESS_TOKEN_SECRET == "ACCESS_TOKEN_SECRET"
REFRESH_TOKEN_SECRET == "REFRESH_TOKEN_SECRET"

\* process.env: EMAIL_VERIFICATION_REQUIRED and COOKIE_DOMAIN.  The cookie
\* domain is "host" when COOKIE_DOMAIN names the provider's own host (the
\* development default) and "parent" when it names a parent suffix shared
\* with the relying parties.
EnvValues == [emailVerificationRequired : BOOLEAN, cookieDomain : {"host", "parent"}]

-----------------------------------------------------------------------------
(* Strings as sequences of atoms *)

RECURSIVE IndexOf(_, _, _)
IndexOf(s, a, i) ==
    IF i > Len(s) THEN 0
    ELSE IF s[i] = a THEN i
    ELSE IndexOf(s, a, i + 1)

\* String.prototype.includes for one character
includes(s, a) == IndexOf(s, a, 1) # 0

RECURSIVE Split(_, _)
Split(s, sep) ==
    LET i == IndexOf(s, sep, 1)
    IN  IF i = 0 THEN <<s>>
        ELSE <<SubSeq(s, 1, i - 1)>> \o Split(SubSeq(s, i + 1, Len(s)), sep)

\* percent-encoding of one atom (encodeURIComponent, and the serializer of
\* URLSearchParams): a reserved character becomes its escape
PercentEncode(a) ==
    CASE a = "&" -> "%26"
      [] a = "=" -> "%3D"
      [] a = "#" -> "%23"
      [] a = "?" -> "%3F"
      [] a = ":" -> "%3A"
      [] a = "/" -> "%2F"
      [] a = "%" -> "%25"
      [] OTHER   -> a

PercentDecode(a) ==
    CASE a = "%26" -> "&"
      [] a = "%3D" -> "="
      [] a = "%23" -> "#"
      [] a = "%3F" -> "?"
      [] a = "%3A" -> ":"
      [] a = "%2F" -> "/"
      [] a = "%25" -> "%"
      [] OTHER     -> a

encodeURIComponent(s) == [i \in 1..Len(s) |-> PercentEncode(s[i])]
decodeURIComponent(s) == [i \in 1..Len(s) |-> PercentDecode(s[i])]

\* The part of a URL before "?" and the query between "?" and "#"
UrlBase(url) ==
    LET q == IndexOf(url, "?", 1)
    IN  IF q = 0 THEN url ELSE SubSeq(url, 1, q - 1)

UrlQuery(url) ==
    LET q == IndexOf(url, "?", 1)
        rest == IF q = 0 THEN <<>> ELSE SubSeq(url, q + 1, Len(url))
        h == IndexOf(rest, "#", 1)
    IN  IF h = 0 THEN rest ELSE SubSeq(rest, 1, h - 1)

\* URLSearchParams.get(name) on the query of a URL: the value of the first
\* "name=value" segment, decoded; <<>> when there is none
searchParamsGet(url, name) ==
    LET segs == Split(UrlQuery(url), "&")
        hits == {i \in 1..Len(segs) :
                    /\ Len(segs[i]) >= 2
                    /\ segs[i][1] = name
                    /\ segs[i][2] = "="}
    IN  IF hits = {} THEN <<>>
        ELSE LET i == CHOOSE k \in hits : \A m \in hits : k <= m
             IN  decodeURIComponent(SubSeq(segs[i], 3, Len(segs[i])))

-----------------------------------------------------------------------------
(* utils/jwt.ts: token codec, password hash, token digest, expiry helpers *)

\* Date.now() in whole seconds, as the JWT library reads the clock
ClockSeconds(t) == t \div TicksPerSecond

\* jwt.sign(payload, secret, {expiresIn, issuer, audience}).  A JWT is the
\* record of what it signs; tokens with equal content are the same string.
Jwt(secret, aud, iat, ttl, userId, email, emailVerified, name, tokenId) ==
    [secret |-> secret, iss |-> Issuer, aud |-> aud, iat |-> iat,
     exp |-> iat + ttl, userId |-> userId, email |-> email,
     emailVerified |-> emailVerified, name |-> name, tokenId |-> tokenId]

generateAccessToken(user, t) ==
    Jwt(ACCESS_TOKEN_SECRET, Audience, ClockSeconds(t), ACCESS_TOKEN_EXPIRY,
        user.id, user.email, user.emailVerified, "", 0)

generateIdToken(user, t) ==
    Jwt(ACCESS_TOKEN_SECRET, Audience, ClockSeconds(t), ACCESS_TOKEN_EXPIRY,
        user.id, user.email, user.emailVerified, user.name, 0)

generateRefreshToken(user, tokenId, t) ==
    Jwt(REFRESH_TOKEN_SECRET, "", ClockSeconds(t), REFRESH_TOKEN_EXPIRY,
        user.id, <<>>, FALSE, "", tokenId)

\* jwt.verify: signature, then exp, then audience, then issuer
JwtExpired(tok, t) == ClockSeconds(t) >= tok.exp

verifyAccessToken(tok, t) ==
    IF tok.secret # ACCESS_TOKEN_SECRET THEN "Invalid access token"
    ELSE IF JwtExpired(tok, t) THEN "Access token expired"
    ELSE IF tok.aud # Audience \/ tok.iss # Issuer THEN "Invalid access token"
    ELSE "ok"

\* a verification that does not look at exp
verifyRefreshToken_NoExpiry(tok, t) ==
    IF tok.secret # REFRESH_TOKEN_SECRET THEN "Invalid refresh token"
    ELSE IF tok.iss # Issuer THEN "Invalid refresh token"
    ELSE "ok"

verifyRefreshToken(tok, t) ==
    IF tok.secret # REFRESH_TOKEN_SECRET THEN "Invalid refresh token"
    ELSE IF JwtExpired(tok, t) THEN "Refresh token expired"
    ELSE IF tok.iss # Issuer THEN "Invalid refresh token"
    ELSE "ok"

\* a comparison that accepts every secret
comparePassword_Always(password, hashed) == TRUE

\* bcrypt reads at most the first BcryptMaxBytes bytes of the password
bcryptInput(password) ==
    IF Len(password) > BcryptMaxBytes THEN SubSeq(password, 1, BcryptMaxBytes)
    ELSE password

\* bcrypt.hash / bcrypt.compare
hashPassword(password) ==
    [alg |-> "bcrypt", rounds |-> SALT_ROUNDS, of |-> bcryptInput(password)]
comparePassword(password, hashed) ==
    hashed.alg = "bcrypt" /\ hashed.of = bcryptInput(password)

\* no digest at all: the token itself
hashToken_Identity(tok) == tok

\* the token string stored as it is
hashToken_Raw(tok) == [alg |-> "raw", of |-> tok]

\* SHA-256 hex digest of the token string
hashToken(tok) == [alg |-> "sha256", of |-> tok]

\* crypto.randomBytes(32): a code no row holds yet; codes are named in the
\* order they are drawn
generateAuthCode(codes) == ToString(Cardinality(codes) + 1)

\* crypto.randomUUID(): an id no earlier refresh token carries
generateTokenId(rows) == Cardinality(rows) + 1

getRefreshTokenExpiry(t) == t + RefreshTokenDays * 24 * 60 * 60 * TicksPerSecond
\* ten seconds in place of ten minutes
getAuthCodeExpiry_Seconds(t) == t + AuthCodeMinutes * TicksPerSecond

getAuthCodeExpiry(t) == t + AuthCodeMinutes * 60 * TicksPerSecond

-----------------------------------------------------------------------------
(* db/schema.ts and seed.ts: the tables and their seeded rows *)

UriLocal == <<"http", ":", "/", "/", "localhost", "/", "callback">>
UriScan == <<"https", ":", "/", "/", "devshelfscan", "/", "callback">>
UriMuse == <<"https", ":", "/", "/", "dev.shelfmuse", "/", "callback">>
UriEvil == <<"https", ":", "/", "/", "attacker", "/", "callback">>
UriLonger == UriLocal \o <<"/", "x">>

\* client_apps: provisioned by the seed script, never written at run time
clientApps ==
    { [clientId |-> "shelfscan", clientSecret |-> hashPassword("shelfscan-secret"),
       name |-> "ShelfScan", allowedRedirectUris |-> <<UriLocal, UriScan>>],
      [clientId |-> "shelfmuse", clientSecret |-> hashPassword("shelfmuse-secret"),
       name |-> "ShelfMuse", allowedRedirectUris |-> <<UriLocal, UriMuse>>] }

EmailTest == <<"test", "@", "shelfex.com">>
EmailBob == <<"bob", "@", "shelfex.com">>

\* the seeded, verified test user and one user who registered (unverified)
SeedUsers ==
    { [id |-> "u1", email |-> EmailTest, username |-> <<"testuser">>,
       password |-> hashPassword("12345"), name |-> "Test User",
       emailVerified |-> TRUE],
      [id |-> "u2", email |-> EmailBob, username |-> <<>>,
       password |-> hashPassword("hunter2"), name |-> "",
       emailVerified |-> FALSE] }

\* the passwords of the seeded users
SeedPasswords == {[id |-> "u1", password |-> "12345"], [id |-> "u2", password |-> "hunter2"]}

\* db.select().from(table).where(...).limit(1): a sequence of 0 or 1 rows
SelectOne(rows) == IF rows = {} THEN <<>> ELSE <<CHOOSE r \in rows : TRUE>>

NoCookies == [access_token |-> <<>>, refresh_token |-> <<>>, accounts_session |-> <<>>]

\* a request slot holds the handler's position and its local variables
IdleToken == [pc |-> "idle", body |-> <<>>, authCode |-> <<>>, user |-> <<>>,
              readAt |-> 0, usedAtStart |-> FALSE]
IdleRefresh == [pc |-> "idle", ua |-> FALSE, tok |-> <<>>, storedToken |-> <<>>,
                user |-> <<>>, newAccessToken |-> <<>>, readAt |-> 0]
IdleRegister == [pc |-> "idle", body |-> <<>>]

Init ==
    /\ env \in EnvValues
    /\ now = 0
    /\ users = SeedUsers
    /\ authCodes = {}
    /\ refreshTokens = {}
    /\ cookies = NoCookies
    /\ issued = {}
    /\ tokenReq = [i \in 1..NumTokenReqs |-> IdleToken]
    /\ refreshReq = [i \in 1..NumRefreshReqs |-> IdleRefresh]
    /\ registerReq = [i \in 1..NumRegisterReqs |-> IdleRegister]
    /\ credentials = SeedPasswords
    /\ last = [op |-> "none"]

\* res.status(n).json({message, data}) and res.redirect(location)
Json(status, message) ==
    [status |-> status, message |-> message, location |-> <<>>, data |-> <<>>]
JsonData(status, message, data) ==
    [status |-> status, message |-> message, location |-> <<>>, data |-> <<data>>]
Redirect(location) ==
    [status |-> 302, message |-> "", location |-> location, data |-> <<>>]

\* errorMiddleware: an error thrown in a handler has no status and is
\* answered with 500 and the error's message
errorMiddleware(message) == Json(500, message)

-----------------------------------------------------------------------------
(* The user agent's cookie jar *)

\* res.cookie(name, value, {domain, maxAge}): a cookie is stored under its
\* name and domain; "host" is the provider's own host
SetCookie(jar, name, value, domain, maxAge, t) ==
    [jar EXCEPT ![name] = <<[value |-> value, domain |-> domain,
                             expires |-> t + maxAge * TicksPerSecond]>>]

\* res.clearCookie(name) with no options: expires the cookie of that name
\* on the responding host; a cookie stored under another domain is a
\* different cookie and stays
clearCookie(jar, name) ==
    IF jar[name] # <<>> /\ jar[name][1].domain = "host"
    THEN [jar EXCEPT ![name] = <<>>]
    ELSE jar

\* req.cookies[name] as the user agent sends it at time t
SentCookie(jar, name, t) ==
    IF jar[name] # <<>> /\ t < jar[name][1].expires
    THEN <<jar[name][1].value>>
    ELSE <<>>

-----------------------------------------------------------------------------
(* auth.controller.ts: login *)

\* the user row the identifier resolves to (0 or 1 rows)
findUser(us, identifier) ==
    SelectOne({u \in us : IF includes(identifier, "@")
                          THEN u.email = identifier
                          ELSE u.username = identifier})

\* the URL the login handler redirects to in an OAuth login
authorizeUrl(body) ==
    <<"/api/v1/oauth/authorize", "?", "client_id", "=", body.client_id,
      "&", "redirect_uri", "=">> \o encodeURIComponent(body.redirect_uri)
    \o <<"&", "response_type", "=", "code">>
    \o (IF body.state # <<>> THEN <<"&", "state", "=">> \o body.state ELSE <<>>)

\* the checks of login: the error response, or <<>> with the user found
loginCheck(body, us) ==
    IF body.identifier = <<>> \/ body.password = ""
    THEN [res |-> <<Json(400, "Email/username and password are required")>>, user |-> <<>>]
    ELSE LET found == findUser(us, body.identifier)
         IN  IF found = <<>>
             THEN [res |-> <<Json(401, "Invalid credentials")>>, user |-> <<>>]
             ELSE IF ~comparePassword(body.password, found[1].password)
             THEN [res |-> <<Json(401, "Invalid credentials")>>, user |-> <<>>]
             ELSE [res |-> <<>>, user |-> found]

PublicUser(u) == [id |-> u.id, email |-> u.email, name |-> u.name,
                  emailVerified |-> u.emailVerified]

login(body) ==
    LET chk == loginCheck(body, users)
    IN  IF chk.res # <<>>
        THEN /\ last' = [op |-> "login", req |-> body, res |-> chk.res[1]]
             /\ UNCHANGED <<env, registerReq, credentials, now, users, authCodes, refreshTokens, cookies,
                            issued, tokenReq, refreshReq>>
        ELSE LET user == chk.user[1]
                 accessToken == generateAccessToken(user, now)
                 tokenId == generateTokenId(refreshTokens)
                 refreshToken == generateRefreshToken(user, tokenId, now)
                 row == [userId |-> user.id, tokenHash |-> hashToken(refreshToken),
                         expiresAt |-> getRefreshTokenExpiry(now),
                         isRevoked |-> FALSE, lastUsedAt |-> -1]
                 jar1 == SetCookie(cookies, "access_token", accessToken, "host",
                                   AccessCookieMaxAge, now)
                 jar2 == SetCookie(jar1, "refresh_token", refreshToken, "host",
                                   RefreshCookieMaxAge, now)
                 jar3 == SetCookie(jar2, "accounts_session", accessToken,
                                   env.cookieDomain, AccessCookieMaxAge, now)
                 data == [user |-> PublicUser(user), accessToken |-> accessToken,
                          refreshToken |-> refreshToken]
             IN  /\ refreshTokens' = refreshTokens \cup {row}
                 /\ cookies' = jar3
                 /\ issued' = issued \cup {[token |-> refreshToken, code |-> ""]}
                 /\ last' = [op |-> "login", req |-> body,
                             res |-> IF body.client_id # "" /\ body.redirect_uri # <<>>
                                     THEN Redirect(authorizeUrl(body))
                                     ELSE JsonData(200, "Login successful", data)]
                 /\ UNCHANGED <<env, registerReq, credentials, now, users, authCodes, tokenReq, refreshReq>>

\* lines 159-164 and 213-216: the insert of the refresh token's row is
\* rejected by the store, before any cookie is set; the catch block hands
\* the error to errorMiddleware
loginInsertFails(body) ==
    /\ loginCheck(body, users).res = <<>>
    /\ last' = [op |-> "login", req |-> body, res |-> errorMiddleware("store error")]
    /\ UNCHANGED <<env, registerReq, credentials, now, users, authCodes, refreshTokens, cookies,
                   issued, tokenReq, refreshReq>>

-----------------------------------------------------------------------------
(* auth.controller.ts: register *)

\* uuid defaultRandom(): an id no user row holds yet
generateUserId(us) == "u" \o ToString(Cardinality(us) + 1)

\* lines 23-48: the presence of email and password, the lookups by email
\* and by username, and the answers they lead to; <<>> when all pass.  The
\* lookup by username of line 32 is made again at line 40 and is read there.
registerCheck(body, us) ==
    IF body.email = <<>> \/ body.password = ""
    THEN <<Json(400, "Email and password are required")>>
    ELSE IF \E u \in us : u.email = body.email
    THEN <<Json(409, "User with this email already exists")>>
    ELSE IF body.username # <<>> /\ \E u \in us : u.username = body.username
    THEN <<Json(409, "Username already taken")>>
    ELSE <<>>

\* the unique constraints of users.email and users.username (schema.ts): a
\* row colliding with `row` exists; NULL usernames never collide
uniqueViolation(us, row) ==
    \E u \in us : \/ u.email = row.email
                  \/ (row.username # <<>> /\ u.username = row.username)

RegisterAnswer(body, res) == [op |-> "register", req |-> body, res |-> res]

\* the checks of register, made on the rows as they are read
registerBegin(i, body) ==
    LET chk == registerCheck(body, users)
    IN  /\ registerReq[i].pc = "idle"
        /\ IF chk # <<>>
           THEN /\ last' = RegisterAnswer(body, chk[1])
                /\ UNCHANGED registerReq
           ELSE /\ registerReq' = [registerReq EXCEPT ![i] =
                                      [pc |-> "insert", body |-> body]]
                /\ UNCHANGED last
        /\ UNCHANGED <<env, now, users, authCodes, refreshTokens, cookies,
                       issued, tokenReq, refreshReq, credentials>>

\* lines 50-76: the password is hashed and the row inserted; an insert that
\* violates a unique constraint throws, and errorMiddleware answers
registerInsert(i) ==
    LET body == registerReq[i].body
        newUser == [id |-> generateUserId(users), email |-> body.email,
                    username |-> body.username,
                    password |-> hashPassword(body.password),
                    name |-> body.name, emailVerified |-> FALSE]
    IN  /\ registerReq[i].pc = "insert"
        /\ registerReq' = [registerReq EXCEPT ![i] = IdleRegister]
        /\ IF uniqueViolation(users, newUser)
           THEN /\ last' = RegisterAnswer(body,
                              errorMiddleware("duplicate key value violates unique constraint"))
                /\ UNCHANGED <<users, credentials>>
           ELSE /\ users' = users \cup {newUser}
                /\ credentials' = credentials \cup
                                     {[id |-> newUser.id, password |-> body.password]}
                /\ last' = RegisterAnswer(body,
                              JsonData(201, "User registered successfully",
                                       [id |-> newUser.id, email |-> newUser.email,
                                        username |-> newUser.username,
                                        name |-> newUser.name,
                                        emailVerified |-> newUser.emailVerified]))
        /\ UNCHANGED <<env, now, authCodes, refreshTokens, cookies, issued,
                       tokenReq, refreshReq>>

-----------------------------------------------------------------------------
(* auth.controller.ts: logout *)

\* a revocation that flips the flag instead of setting it
markRevoked_Toggle(rows, hash) ==
    {IF r.tokenHash = hash THEN [r EXCEPT !.isRevoked = ~r.isRevoked] ELSE r : r \in rows}

\* a revocation of every record of the user who owns the presented token
markRevoked_AllOfUser(rows, hash) ==
    {IF \E o \in rows : o.tokenHash = hash /\ o.userId = r.userId
     THEN [r EXCEPT !.isRevoked = TRUE] ELSE r : r \in rows}

\* db.update(refreshTokens).set({isRevoked: true}).where(tokenHash = hash)
markRevoked(rows, hash) ==
    {IF r.tokenHash = hash THEN [r EXCEPT !.isRevoked = TRUE] ELSE r : r \in rows}

\* the table after a logout that presents the refresh_token cookie `sent`
logoutRows(rows, sent) ==
    IF sent # <<>> THEN markRevoked(rows, hashToken(sent[1])) ELSE rows

\* logout called by the user agent: its cookies are sent and cleared
logout ==
    LET sent == SentCookie(cookies, "refresh_token", now)
    IN  /\ refreshTokens' = logoutRows(refreshTokens, sent)
        /\ cookies' = clearCookie(clearCookie(clearCookie(cookies,
                          "access_token"), "refresh_token"), "accounts_session")
        /\ last' = [op |-> "logout",
                    req |-> [cookie |-> sent, body |-> <<>>, ua |-> TRUE],
                    res |-> Json(200, "Logged out successfully")]
        /\ UNCHANGED <<env, registerReq, credentials, now, users, authCodes, issued, tokenReq, refreshReq>>

\* logout called by another agent that holds a refresh token
logoutAgent(tok) ==
    /\ refreshTokens' = logoutRows(refreshTokens, <<tok>>)
    /\ last' = [op |-> "logout",
                req |-> [cookie |-> <<tok>>, body |-> <<>>, ua |-> FALSE],
                res |-> Json(200, "Logged out successfully")]
    /\ UNCHANGED <<env, registerReq, credentials, now, users, authCodes, cookies, issued, tokenReq, refreshReq>>

\* logout called by an agent that sends no cookie and carries the refresh
\* token in the request body, which the handler does not read (line 321)
logoutBody(tok) ==
    /\ refreshTokens' = logoutRows(refreshTokens, <<>>)
    /\ last' = [op |-> "logout",
                req |-> [cookie |-> <<>>, body |-> <<tok>>, ua |-> FALSE],
                res |-> Json(200, "Logged out successfully")]
    /\ UNCHANGED <<env, registerReq, credentials, now, users, authCodes, cookies, issued, tokenReq, refreshReq>>

-----------------------------------------------------------------------------
(* oauth.controller.ts: authorize *)

\* prefix matching in place of exact matching
redirectAllowed_Prefix(allowedUris, uri) ==
    \E i \in 1..Len(allowedUris) :
        /\ Len(allowedUris[i]) <= Len(uri)
        /\ SubSeq(uri, 1, Len(allowedUris[i])) = allowedUris[i]

\* allowedUris.includes(redirect_uri)
redirectAllowed(allowedUris, uri) ==
    \E i \in 1..Len(allowedUris) : allowedUris[i] = uri

\* a lookup that returns a client whatever the client_id
findClient_Any(clientId) == SelectOne(clientApps)

\* select from client_apps where client_id = ? limit 1
findClient(clientId) == SelectOne({c \in clientApps : c.clientId = clientId})

\* `${frontendUrl}/login?client_id=..&redirect_uri=..&state=..`
loginUrl(q) ==
    <<"FRONTEND_URL", "/", "login", "?", "client_id", "=", q.client_id,
      "&", "redirect_uri", "=">> \o encodeURIComponent(q.redirect_uri)
    \o <<"&", "state", "=">> \o q.state

\* new URL(redirect_uri) with searchParams code and, if truthy, state
redirectUrl(q, code) ==
    q.redirect_uri \o <<"?", "code", "=", code>>
    \o (IF q.state # <<>>
        THEN <<"&", "state", "=">> \o encodeURIComponent(q.state)
        ELSE <<>>)

\* the response of authorize and the auth_codes row it inserts, if any
authorizeOutcome(q, session, e, t, codes) ==
    IF q.client_id = "" \/ q.redirect_uri = <<>> \/ q.response_type # "code"
    THEN [res |-> Json(400, "Invalid OAuth request"), insert |-> <<>>]
    ELSE LET client == findClient(q.client_id)
         IN  IF client = <<>>
             THEN [res |-> Json(400, "Invalid client_id"), insert |-> <<>>]
             ELSE IF ~redirectAllowed(client[1].allowedRedirectUris, q.redirect_uri)
             THEN [res |-> Json(400, "Invalid redirect_uri"), insert |-> <<>>]
             ELSE IF session = <<>>
             THEN [res |-> Redirect(loginUrl(q)), insert |-> <<>>]
             ELSE IF verifyAccessToken(session[1], t) # "ok"
             THEN [res |-> Redirect(loginUrl(q)), insert |-> <<>>]
             ELSE IF e.emailVerificationRequired /\ ~session[1].emailVerified
             THEN [res |-> Json(403, "Email verification required"), insert |-> <<>>]
             ELSE LET code == generateAuthCode(codes)
                  IN  [res |-> Redirect(redirectUrl(q, code)),
                       insert |-> <<[code |-> code, userId |-> session[1].userId,
                                     clientId |-> q.client_id,
                                     redirectUri |-> q.redirect_uri,
                                     expiresAt |-> getAuthCodeExpiry(t),
                                     isUsed |-> FALSE]>>]

authorize(q, session, ua) ==
    LET out == authorizeOutcome(q, session, env, now, authCodes)
    IN  /\ authCodes' = authCodes \cup {out.insert[i] : i \in 1..Len(out.insert)}
        /\ last' = [op |-> "authorize",
                    req |-> [query |-> q, session |-> session, ua |-> ua,
                             at |-> now],
                    res |-> out.res]
        /\ UNCHANGED <<env, registerReq, credentials, now, users, refreshTokens, cookies, issued,
                       tokenReq, refreshReq>>

\* the user agent sends the accounts_session cookie it holds
authorizeUA(q) == authorize(q, SentCookie(cookies, "accounts_session", now), TRUE)

\* access-token-shaped values the provider never issued: a bad signature,
\* and tokens of another issuer or audience under the same key
ForeignSessions ==
    LET tok == generateAccessToken(CHOOSE u \in SeedUsers : u.emailVerified, 0)
    IN  { [tok EXCEPT !.secret = "OTHER_SECRET"],
          [tok EXCEPT !.iss = "evil.example"],
          [tok EXCEPT !.aud = "other-services"] }

authorizeAgent(q, tok) == authorize(q, <<tok>>, FALSE)

\* a parameter value as Express hands it to the handler: the string made of
\* the decoded characters
RECURSIVE JoinAtoms(_)
JoinAtoms(v) == IF v = <<>> THEN "" ELSE v[1] \o JoinAtoms(Tail(v))

\* req.query of a GET to `url`
parseQuery(url) ==
    [client_id |-> JoinAtoms(searchParamsGet(url, "client_id")),
     redirect_uri |-> searchParamsGet(url, "redirect_uri"),
     response_type |-> JoinAtoms(searchParamsGet(url, "response_type")),
     state |-> searchParamsGet(url, "state")]

\* the user agent follows the 302 of an OAuth login: a GET to the Location,
\* with the cookies the login has just set
followRedirect ==
    /\ last.op = "login" /\ last.res.status = 302
    /\ authorizeUA(parseQuery(last.res.location))

-----------------------------------------------------------------------------
(* oauth.controller.ts: token *)

\* the code looked up by its value alone
findAuthCode_AnyClient(codes, code, clientId) ==
    SelectOne({c \in codes : c.code = code})

\* select from auth_codes where code = ? and client_id = ?
findAuthCode(codes, code, clientId) ==
    SelectOne({c \in codes : c.code = code /\ c.clientId = clientId})

\* the check of the used flag left out
codeUsed_Unchecked(row) == FALSE

\* authCode.isUsed
codeUsed(row) == row.isUsed

\* a code that is already expired at the instant of its expiry
codeExpired_AtBoundary(row, t) == t >= row.expiresAt

\* new Date() > authCode.expiresAt
codeExpired(row, t) == t > row.expiresAt

\* the comparison of the redirect URIs left out
redirectMatches_Unchecked(row, uri) == TRUE

\* authCode.redirectUri !== redirect_uri, negated
redirectMatches(row, uri) == row.redirectUri = uri

\* the checks of token with the expiry of the code tested before its used flag
tokenCheck_ExpiryBeforeUsed(body, codes, t) ==
    IF \/ body.code = "" \/ body.client_id = "" \/ body.client_secret = ""
       \/ body.redirect_uri = <<>> \/ body.grant_type # "authorization_code"
    THEN [res |-> <<Json(400, "Invalid token request")>>, authCode |-> <<>>]
    ELSE LET client == findClient(body.client_id)
         IN  IF client = <<>>
             THEN [res |-> <<Json(401, "Invalid client credentials")>>, authCode |-> <<>>]
             ELSE IF ~comparePassword(body.client_secret, client[1].clientSecret)
             THEN [res |-> <<Json(401, "Invalid client credentials")>>, authCode |-> <<>>]
             ELSE LET authCode == findAuthCode(codes, body.code, body.client_id)
                  IN  IF authCode = <<>>
                      THEN [res |-> <<Json(400, "Invalid authorization code")>>,
                            authCode |-> <<>>]
                      ELSE IF codeExpired(authCode[1], t)
                      THEN [res |-> <<Json(400, "Authorization code expired")>>,
                            authCode |-> authCode]
                      ELSE IF codeUsed(authCode[1])
                      THEN [res |-> <<Json(400, "Authorization code already used")>>,
                            authCode |-> authCode]
                      ELSE IF ~redirectMatches(authCode[1], body.redirect_uri)
                      THEN [res |-> <<Json(400, "Invalid redirect_uri")>>,
                            authCode |-> authCode]
                      ELSE [res |-> <<>>, authCode |-> authCode]

\* the validation of token up to and including the redirect_uri check: the
\* error response, or <<>> with the auth_codes row that was read
tokenCheck(body, codes, t) ==
    IF \/ body.code = "" \/ body.client_id = "" \/ body.client_secret = ""
       \/ body.redirect_uri = <<>> \/ body.grant_type # "authorization_code"
    THEN [res |-> <<Json(400, "Invalid token request")>>, authCode |-> <<>>]
    ELSE LET client == findClient(body.client_id)
         IN  IF client = <<>>
             THEN [res |-> <<Json(401, "Invalid client credentials")>>, authCode |-> <<>>]
             ELSE IF ~comparePassword(body.client_secret, client[1].clientSecret)
             THEN [res |-> <<Json(401, "Invalid client credentials")>>, authCode |-> <<>>]
             ELSE LET authCode == findAuthCode(codes, body.code, body.client_id)
                  IN  IF authCode = <<>>
                      THEN [res |-> <<Json(400, "Invalid authorization code")>>,
                            authCode |-> <<>>]
                      ELSE IF codeUsed(authCode[1])
                      THEN [res |-> <<Json(400, "Authorization code already used")>>,
                            authCode |-> authCode]
                      ELSE IF codeExpired(authCode[1], t)
                      THEN [res |-> <<Json(400, "Authorization code expired")>>,
                            authCode |-> authCode]
                      ELSE IF ~redirectMatches(authCode[1], body.redirect_uri)
                      THEN [res |-> <<Json(400, "Invalid redirect_uri")>>,
                            authCode |-> authCode]
                      ELSE [res |-> <<>>, authCode |-> authCode]

\* the answer of a token request, with what the handler read on the way
TokenAnswer(slot, res) ==
    [op |-> "token",
     req |-> [body |-> slot.body, authCode |-> slot.authCode,
              readAt |-> slot.readAt, usedAtStart |-> slot.usedAtStart],
     res |-> res]

\* an exchange that burns the code it read when a check on the code fails
tokenBegin_BurnOnFailure(i, body) ==
    LET chk == tokenCheck(body, authCodes, now)
        slot == [pc |-> "user", body |-> body, authCode |-> chk.authCode,
                 user |-> <<>>, readAt |-> now,
                 usedAtStart |-> \E c \in authCodes : c.code = body.code /\ c.isUsed]
    IN  /\ tokenReq[i].pc = "idle"
        /\ IF chk.res # <<>>
           THEN /\ last' = TokenAnswer(slot, chk.res[1])
                /\ authCodes' = {IF <<c>> = chk.authCode THEN [c EXCEPT !.isUsed = TRUE]
                                 ELSE c : c \in authCodes}
                /\ UNCHANGED tokenReq
           ELSE /\ tokenReq' = [tokenReq EXCEPT ![i] = slot]
                /\ UNCHANGED <<last, authCodes>>
        /\ UNCHANGED <<env, registerReq, credentials, now, users, refreshTokens, cookies,
                       issued, refreshReq>>

\* lines 128-218: parameters, client, secret, the read of the code row and
\* the checks made on it
tokenBegin(i, body) ==
    LET chk == tokenCheck(body, authCodes, now)
        slot == [pc |-> "user", body |-> body, authCode |-> chk.authCode,
                 user |-> <<>>, readAt |-> now,
                 usedAtStart |-> \E c \in authCodes : c.code = body.code /\ c.isUsed]
    IN  /\ tokenReq[i].pc = "idle"
        /\ IF chk.res # <<>>
           THEN /\ last' = TokenAnswer(slot, chk.res[1])
                /\ UNCHANGED tokenReq
           ELSE /\ tokenReq' = [tokenReq EXCEPT ![i] = slot]
                /\ UNCHANGED last
        /\ UNCHANGED <<env, registerReq, credentials, now, users, authCodes, refreshTokens, cookies,
                       issued, refreshReq>>

\* the user row read without the code's userId
tokenUser_FirstUser(i) ==
    LET slot == tokenReq[i]
        user == SelectOne({u \in users : u.emailVerified})
    IN  /\ slot.pc = "user"
        /\ IF user = <<>>
           THEN /\ last' = TokenAnswer(slot, Json(400, "User not found"))
                /\ tokenReq' = [tokenReq EXCEPT ![i] = IdleToken]
           ELSE /\ tokenReq' = [tokenReq EXCEPT ![i] = [slot EXCEPT !.pc = "mark",
                                                                   !.user = user]]
                /\ UNCHANGED last
        /\ UNCHANGED <<env, registerReq, credentials, now, users, authCodes, refreshTokens, cookies,
                       issued, refreshReq>>

\* lines 220-230: the read of the user row
tokenUser(i) ==
    LET slot == tokenReq[i]
        user == SelectOne({u \in users : u.id = slot.authCode[1].userId})
    IN  /\ slot.pc = "user"
        /\ IF user = <<>>
           THEN /\ last' = TokenAnswer(slot, Json(400, "User not found"))
                /\ tokenReq' = [tokenReq EXCEPT ![i] = IdleToken]
           ELSE /\ tokenReq' = [tokenReq EXCEPT ![i] = [slot EXCEPT !.pc = "mark",
                                                                   !.user = user]]
                /\ UNCHANGED last
        /\ UNCHANGED <<env, registerReq, credentials, now, users, authCodes, refreshTokens, cookies,
                       issued, refreshReq>>

\* an update that flips the used flag instead of setting it
markUsed_Toggle(codes, code) ==
    {IF c.code = code THEN [c EXCEPT !.isUsed = ~c.isUsed] ELSE c : c \in codes}

\* db.update(authCodes).set({isUsed: true}).where(code = ?)
markUsed(codes, code) ==
    {IF c.code = code THEN [c EXCEPT !.isUsed = TRUE] ELSE c : c \in codes}

\* line 233: the code is marked used
tokenMark(i) ==
    LET slot == tokenReq[i]
    IN  /\ slot.pc = "mark"
        /\ authCodes' = markUsed(authCodes, slot.body.code)
        /\ tokenReq' = [tokenReq EXCEPT ![i] = [slot EXCEPT !.pc = "issue"]]
        /\ UNCHANGED <<env, registerReq, credentials, now, users, refreshTokens, cookies, issued,
                       refreshReq, last>>

\* lines 235-275: the tokens are signed, the refresh token's row is
\* inserted, and the response is sent
tokenIssue(i) ==
    LET slot == tokenReq[i]
        user == slot.user[1]
        accessToken == generateAccessToken(user, now)
        tokenId == generateTokenId(refreshTokens)
        refreshToken == generateRefreshToken(user, tokenId, now)
        idToken == generateIdToken(user, now)
        row == [userId |-> user.id, tokenHash |-> hashToken(refreshToken),
                expiresAt |-> getRefreshTokenExpiry(now),
                isRevoked |-> FALSE, lastUsedAt |-> -1]
        data == [access_token |-> accessToken, refresh_token |-> refreshToken,
                 token_type |-> "Bearer", expires_in |-> ExpiresIn,
                 id_token |-> idToken]
    IN  /\ slot.pc = "issue"
        /\ refreshTokens' = refreshTokens \cup {row}
        /\ issued' = issued \cup {[token |-> refreshToken, code |-> slot.body.code]}
        /\ tokenReq' = [tokenReq EXCEPT ![i] = IdleToken]
        /\ last' = TokenAnswer(slot, JsonData(200, "", data))
        /\ UNCHANGED <<env, registerReq, credentials, now, users, authCodes, cookies, refreshReq>>

\* lines 257-263 and 276-279: the insert of the refresh token's row is
\* rejected by the store; the catch block hands the error to errorMiddleware
tokenInsertFails(i) ==
    LET slot == tokenReq[i]
    IN  /\ slot.pc = "issue"
        /\ tokenReq' = [tokenReq EXCEPT ![i] = IdleToken]
        /\ last' = TokenAnswer(slot, errorMiddleware("store error"))
        /\ UNCHANGED <<env, registerReq, credentials, now, users, authCodes, refreshTokens,
                       cookies, issued, refreshReq>>

-----------------------------------------------------------------------------
(* auth.controller.ts: refresh; middlewares/error.middleware.ts *)

\* a lookup of the record by the user the token names
findRefreshToken_ByUser(rows, tok) == SelectOne({r \in rows : r.userId = tok.userId})

findRefreshToken(rows, tok) == SelectOne({r \in rows : r.tokenHash = hashToken(tok)})

\* the check of the revoked flag left out
tokenRevoked_Unchecked(row) == FALSE

\* storedToken.isRevoked
tokenRevoked(row) == row.isRevoked

\* new Date() > storedToken.expiresAt
recordExpired(row, t) == t > row.expiresAt

\* lines 224-269: the checks of refresh up to the expiry of the record: the
\* error response, or <<>> with the row that was read
refreshCheck(presented, rows, t) ==
    IF presented = <<>>
    THEN [res |-> <<Json(401, "Refresh token required")>>, storedToken |-> <<>>]
    ELSE IF verifyRefreshToken(presented[1], t) # "ok"
    THEN [res |-> <<errorMiddleware(verifyRefreshToken(presented[1], t))>>,
          storedToken |-> <<>>]
    ELSE LET storedToken == findRefreshToken(rows, presented[1])
         IN  IF storedToken = <<>>
             THEN [res |-> <<Json(401, "Invalid refresh token")>>, storedToken |-> <<>>]
             ELSE IF tokenRevoked(storedToken[1])
             THEN [res |-> <<Json(401, "Refresh token has been revoked")>>,
                   storedToken |-> storedToken]
             ELSE IF recordExpired(storedToken[1], t)
             THEN [res |-> <<Json(401, "Refresh token expired")>>,
                   storedToken |-> storedToken]
             ELSE [res |-> <<>>, storedToken |-> storedToken]

\* the answer of a refresh request, with the token it presented, the time
\* and the row of that token when the handler looked it up
RefreshAnswer(slot, res) ==
    [op |-> "refresh",
     req |-> [tok |-> slot.tok, ua |-> slot.ua, readAt |-> slot.readAt,
              storedToken |-> slot.storedToken],
     res |-> res]

\* cookie || body; the checks; the read of the refresh_tokens row
refreshBegin(i, cookie, bodyToken, ua) ==
    LET presented == IF cookie # <<>> THEN cookie ELSE bodyToken
        chk == refreshCheck(presented, refreshTokens, now)
        slot == [pc |-> "user", ua |-> ua, tok |-> presented,
                 storedToken |-> IF presented = <<>> THEN <<>>
                                 ELSE findRefreshToken(refreshTokens, presented[1]),
                 user |-> <<>>, newAccessToken |-> <<>>, readAt |-> now]
    IN  /\ refreshReq[i].pc = "idle"
        /\ IF chk.res # <<>>
           THEN /\ last' = RefreshAnswer(slot, chk.res[1])
                /\ UNCHANGED refreshReq
           ELSE /\ refreshReq' = [refreshReq EXCEPT ![i] = slot]
                /\ UNCHANGED last
        /\ UNCHANGED <<env, registerReq, credentials, now, users, authCodes, refreshTokens, cookies,
                       issued, tokenReq>>

\* lines 271-286: the read of the user row, the new access token
refreshUser(i) ==
    LET slot == refreshReq[i]
        user == SelectOne({u \in users : u.id = slot.tok[1].userId})
    IN  /\ slot.pc = "user"
        /\ IF user = <<>>
           THEN /\ last' = RefreshAnswer(slot, Json(401, "User not found"))
                /\ refreshReq' = [refreshReq EXCEPT ![i] = IdleRefresh]
           ELSE /\ refreshReq' = [refreshReq EXCEPT ![i] =
                        [slot EXCEPT !.pc = "write", !.user = user,
                            !.newAccessToken = <<generateAccessToken(user[1], now)>>]]
                /\ UNCHANGED last
        /\ UNCHANGED <<env, registerReq, credentials, now, users, authCodes, refreshTokens, cookies,
                       issued, tokenReq>>

\* the presented token revoked on use, as a rotating refresh would do
markLastUsed_Revoking(rows, hash, t) ==
    {IF r.tokenHash = hash THEN [r EXCEPT !.lastUsedAt = t, !.isRevoked = TRUE]
     ELSE r : r \in rows}

\* a lastUsedAt update that writes the whole row back as unrevoked
markLastUsed_Unrevoking(rows, hash, t) ==
    {IF r.tokenHash = hash THEN [r EXCEPT !.lastUsedAt = t, !.isRevoked = FALSE]
     ELSE r : r \in rows}

\* db.update(refreshTokens).set({lastUsedAt: new Date()}).where(tokenHash = hash)
markLastUsed(rows, hash, t) ==
    {IF r.tokenHash = hash THEN [r EXCEPT !.lastUsedAt = t] ELSE r : r \in rows}

\* lines 288-310: lastUsedAt is written, the cookie set, the response sent
refreshWrite(i) ==
    LET slot == refreshReq[i]
    IN  /\ slot.pc = "write"
        /\ refreshTokens' = markLastUsed(refreshTokens, hashToken(slot.tok[1]), now)
        /\ cookies' = IF slot.ua
                      THEN SetCookie(cookies, "access_token", slot.newAccessToken[1],
                                     "host", AccessCookieMaxAge, now)
                      ELSE cookies
        /\ refreshReq' = [refreshReq EXCEPT ![i] = IdleRefresh]
        /\ last' = RefreshAnswer(slot, JsonData(200, "Token refreshed successfully",
                                     [accessToken |-> slot.newAccessToken[1]]))
        /\ UNCHANGED <<env, registerReq, credentials, now, users, authCodes, issued, tokenReq>>

-----------------------------------------------------------------------------
(* middlewares/auth.middleware.ts and auth.controller.ts: GET /auth/me *)

\* the Authorization header read before the cookie
pickToken_BearerFirst(cookie, bearer) == IF bearer # <<>> THEN bearer ELSE cookie

\* req.cookies.access_token if present, else the Bearer token of the header
pickToken(cookie, bearer) == IF cookie # <<>> THEN cookie ELSE bearer

\* the gate left open
verificationRequired_Never(e, decoded) == FALSE

\* emailVerificationRequired && !decoded.emailVerified
verificationRequired(e, decoded) ==
    e.emailVerificationRequired /\ ~decoded.emailVerified

\* authMiddleware: the error response, or <<>> with req.user
authMiddleware(cookie, bearer, e, t) ==
    LET token == pickToken(cookie, bearer)
    IN  IF token = <<>>
        THEN [res |-> <<Json(401, "Authentication required")>>, user |-> <<>>]
        ELSE LET verdict == verifyAccessToken(token[1], t)
             IN  IF verdict = "Access token expired"
                 THEN [res |-> <<Json(401, "Token expired")>>, user |-> <<>>]
                 ELSE IF verdict = "Invalid access token"
                 THEN [res |-> <<Json(401, "Invalid token")>>, user |-> <<>>]
                 ELSE IF verificationRequired(e, token[1])
                 THEN [res |-> <<Json(403, "Email verification required")>>,
                       user |-> <<>>]
                 ELSE [res |-> <<>>, user |-> token]

\* getCurrentUser: the row of req.user.userId
getCurrentUser(decoded, us) ==
    LET user == SelectOne({u \in us : u.id = decoded.userId})
    IN  IF user = <<>> THEN Json(404, "User not found")
        ELSE JsonData(200, "", PublicUser(user[1]))

\* GET /auth/me with the access_token cookie and the Bearer token given
me(cookie, bearer, ua) ==
    LET auth == authMiddleware(cookie, bearer, env, now)
    IN  /\ last' = [op |-> "me",
                    req |-> [cookie |-> cookie, bearer |-> bearer, ua |-> ua,
                             at |-> now],
                    res |-> IF auth.res # <<>> THEN auth.res[1]
                            ELSE getCurrentUser(auth.user[1], users)]
        /\ UNCHANGED <<env, registerReq, credentials, now, users, authCodes, refreshTokens, cookies, issued, tokenReq, refreshReq>>

\* the user agent sends the access_token cookie it holds
meUA == me(SentCookie(cookies, "access_token", now), <<>>, TRUE)

-----------------------------------------------------------------------------
(* The clock *)

CodeTicks == AuthCodeMinutes * 60 * TicksPerSecond
AccessTicks == ACCESS_TOKEN_EXPIRY * TicksPerSecond
RefreshTicks == REFRESH_TOKEN_EXPIRY * TicksPerSecond

\* the instants around the expiry of whatever was issued at 0..MaxStart
Timeline(ttls) ==
    UNION { {s} \cup {s + x + d : x \in ttls, d \in {-1, 0, 1}} : s \in 0..MaxStart }

Tick(instants) ==
    /\ \E t \in instants : t > now /\ now' = t
    /\ UNCHANGED <<env, registerReq, credentials, users, authCodes, refreshTokens, cookies, issued,
                   tokenReq, refreshReq, last>>

-----------------------------------------------------------------------------
(* The requests the environment sends *)

DevEnv == [emailVerificationRequired |-> FALSE, cookieDomain |-> "host"]

States == {<<>>, <<"abc">>, <<"a", "&", "b">>}

LoginTest == [identifier |-> EmailTest, password |-> "12345", client_id |-> "",
              redirect_uri |-> <<>>, state |-> <<>>]
LoginBob == [identifier |-> EmailBob, password |-> "hunter2", client_id |-> "",
             redirect_uri |-> <<>>, state |-> <<>>]

\* the logins of the seeded users, a wrong password, an unknown user, an
\* OAuth login
LoginBodies ==
    { LoginTest, LoginBob,
      [LoginTest EXCEPT !.identifier = <<"testuser">>],
      [LoginTest EXCEPT !.password = "hunter2"],
      [LoginTest EXCEPT !.identifier = <<"nobody">>],
      [LoginTest EXCEPT !.client_id = "shelfscan", !.redirect_uri = UriLocal,
                        !.state = <<"abc">>] }

\* every client with every redirect URI; the states; a bad response type
AuthorizeQueries ==
    [client_id : {"", "shelfscan", "shelfmuse", "ghost"},
     redirect_uri : {<<>>, UriLocal, UriScan, UriLonger},
     response_type : {"code"},
     state : {<<>>}]
    \cup
    [client_id : {"shelfscan", "shelfmuse"}, redirect_uri : {UriLocal},
     response_type : {"code"}, state : States]
    \cup
    [client_id : {"shelfscan"}, redirect_uri : {UriLocal},
     response_type : {"token"}, state : {<<>>}]

\* the queries that can pass the checks on client and redirect URI
PlainQueries ==
    [client_id : {"shelfscan", "shelfmuse"}, redirect_uri : {UriLocal, UriScan},
     response_type : {"code"}, state : {<<>>}]

CodeNames == {ToString(n) : n \in 1..MaxCodes}

\* every code with every client and secret; another registered redirect
\* URI; a bad grant type
TokenBodies ==
    [code : {""} \cup CodeNames,
     client_id : {"shelfscan", "shelfmuse", "ghost"},
     client_secret : {"shelfscan-secret", "shelfmuse-secret"},
     redirect_uri : {UriLocal},
     grant_type : {"authorization_code"}]
    \cup
    [code : CodeNames, client_id : {"shelfscan"},
     client_secret : {"shelfscan-secret"}, redirect_uri : {UriScan},
     grant_type : {"authorization_code"}]
    \cup
    [code : CodeNames, client_id : {"shelfscan"},
     client_secret : {"shelfscan-secret"}, redirect_uri : {UriLocal},
     grant_type : {"password"}]

\* refresh-token-shaped values the provider never issued
ForeignRefresh ==
    { [generateRefreshToken(u, 1, 0) EXCEPT !.secret = "OTHER_SECRET"] : u \in SeedUsers }

\* the model follows the sessions begun in the first MaxStart ticks, at most
\* MaxSessions of them, and at most MaxCodes authorization codes
MayLogin == now <= MaxStart /\ Cardinality(refreshTokens) < MaxSessions

MayAuthorize(q, session) ==
    authorizeOutcome(q, session, env, now, authCodes).insert # <<>>
        => Cardinality(authCodes) < MaxCodes

-----------------------------------------------------------------------------
(* Specifications *)

\* the code exchange: login, /authorize, /token, the clock
Next ==
    \/ \E body \in {LoginTest, LoginBob} : MayLogin /\ login(body)
    \/ \E q \in PlainQueries :
          /\ MayAuthorize(q, SentCookie(cookies, "accounts_session", now))
          /\ authorizeUA(q)
    \/ \E i \in 1..NumTokenReqs, body \in TokenBodies : tokenBegin(i, body)
    \/ \E i \in 1..NumTokenReqs : tokenUser(i)
    \/ \E i \in 1..NumTokenReqs : tokenMark(i)
    \/ \E i \in 1..NumTokenReqs : tokenIssue(i)
    \/ Tick(Timeline({CodeTicks}))

\* the state after construction under the development environment
InitDev == Init /\ env = DevEnv

Spec == InitDev /\ [][Next]_vars

\* the authorization endpoint: login, logout, /authorize, the clock
NextAuthorize ==
    \/ \E body \in LoginBodies : MayLogin /\ login(body)
    \/ logout
    \/ \E q \in AuthorizeQueries :
          /\ MayAuthorize(q, SentCookie(cookies, "accounts_session", now))
          /\ authorizeUA(q)
    \/ \E q \in {x \in PlainQueries : x.redirect_uri = UriLocal}, tok \in ForeignSessions :
          MayAuthorize(q, <<tok>>) /\ authorizeAgent(q, tok)
    \/ Tick(Timeline({AccessTicks}))

SpecAuthorize == Init /\ [][NextAuthorize]_vars

\* the session lifecycle: login, /refresh, logout, the clock
NextSession ==
    \/ \E body \in LoginBodies : MayLogin /\ login(body)
    \/ logout
    \/ \E tok \in {x.token : x \in issued} \cup ForeignRefresh : logoutAgent(tok)
    \/ \E x \in issued : logoutBody(x.token)
    \/ \E i \in 1..NumRefreshReqs :
          refreshBegin(i, SentCookie(cookies, "refresh_token", now), <<>>, TRUE)
    \/ \E i \in 1..NumRefreshReqs, tok \in {x.token : x \in issued} \cup ForeignRefresh :
          refreshBegin(i, <<>>, <<tok>>, FALSE)
    \/ \E i \in 1..NumRefreshReqs : refreshUser(i)
    \/ \E i \in 1..NumRefreshReqs : refreshWrite(i)
    \/ Tick(Timeline({RefreshTicks}))

SpecSession == InitDev /\ [][NextSession]_vars

\* token requests of the registered client with its own secret
FaultBodies ==
    {b \in TokenBodies : /\ b.client_id = "shelfscan"
                         /\ b.client_secret = "shelfscan-secret"
                         /\ b.code # ""}

\* login and the code exchange over a store that may reject an insert
NextFault ==
    \/ \E body \in {LoginTest, LoginBob} : MayLogin /\ login(body)
    \/ \E body \in {LoginTest, LoginBob} : loginInsertFails(body)
    \/ \E q \in PlainQueries :
          /\ MayAuthorize(q, SentCookie(cookies, "accounts_session", now))
          /\ authorizeUA(q)
    \/ \E i \in 1..NumTokenReqs, body \in FaultBodies : tokenBegin(i, body)
    \/ \E i \in 1..NumTokenReqs : tokenUser(i)
    \/ \E i \in 1..NumTokenReqs : tokenMark(i)
    \/ \E i \in 1..NumTokenReqs : tokenIssue(i)
    \/ \E i \in 1..NumTokenReqs : tokenInsertFails(i)
    \/ Tick(Timeline({CodeTicks}))

SpecFault == InitDev /\ [][NextFault]_vars

\* OAuth logins: a registered and an unknown client, a registered and an
\* unregistered redirect URI, every state; a plain login; an OAuth login
\* of the unverified user
ColdLogins ==
    { [LoginTest EXCEPT !.client_id = c, !.redirect_uri = r, !.state = st] :
          c \in {"shelfscan", "ghost"}, r \in {UriLocal, UriEvil}, st \in States }
    \cup { LoginTest,
            [LoginBob EXCEPT !.client_id = "shelfscan", !.redirect_uri = UriLocal,
                             !.state = <<"abc">>] }

\* the cold start: an OAuth login, the redirect followed, logout, the clock
NextColdStart ==
    \/ \E body \in ColdLogins : MayLogin /\ login(body)
    \/ /\ last.op = "login" /\ last.res.status = 302
       /\ MayAuthorize(parseQuery(last.res.location),
                       SentCookie(cookies, "accounts_session", now))
       /\ followRedirect
    \/ logout
    \/ Tick(Timeline({AccessTicks}))

SpecColdStart == Init /\ [][NextColdStart]_vars

\* the token requests of the registered client that can pass every check
FlagBodies ==
    {b \in FaultBodies : b.redirect_uri = UriLocal /\ b.grant_type = "authorization_code"}

\* the two stored flags together: login, /authorize, the code exchange,
\* /refresh and logout with the tokens issued, the clock
NextFlags ==
    \/ MayLogin /\ login(LoginTest)
    \/ \E q \in {x \in PlainQueries : x.client_id = "shelfscan" /\ x.redirect_uri = UriLocal} :
          /\ MayAuthorize(q, SentCookie(cookies, "accounts_session", now))
          /\ authorizeUA(q)
    \/ \E i \in 1..NumTokenReqs, body \in FlagBodies : tokenBegin(i, body)
    \/ \E i \in 1..NumTokenReqs : tokenUser(i)
    \/ \E i \in 1..NumTokenReqs : tokenMark(i)
    \/ \E i \in 1..NumTokenReqs : tokenIssue(i)
    \/ \E i \in 1..NumRefreshReqs, x \in issued : refreshBegin(i, <<>>, <<x.token>>, FALSE)
    \/ \E i \in 1..NumRefreshReqs : refreshUser(i)
    \/ \E i \in 1..NumRefreshReqs : refreshWrite(i)
    \/ \E x \in issued : logoutAgent(x.token)
    \/ Tick({CodeTicks + 1})

SpecFlags == InitDev /\ [][NextFlags]_vars

\* refresh JWTs signed with the provider's refresh secret that have no
\* record: the record was deleted, or none was ever inserted
UnrecordedRefresh == { generateRefreshToken(u, 99, 0) : u \in SeedUsers }

\* the access and ID tokens a login or an exchange at time 0 hands out
AccessAndIdTokens ==
    { generateAccessToken(u, 0) : u \in SeedUsers }
    \cup { generateIdToken(u, 0) : u \in SeedUsers }

\* /refresh with every kind of token: issued, forged, unrecorded, or not a
\* refresh token at all
NextRefreshOrigin ==
    \/ \E body \in {LoginTest, LoginBob} : MayLogin /\ login(body)
    \/ \E i \in 1..NumRefreshReqs,
          tok \in {x.token : x \in issued} \cup ForeignRefresh
                    \cup UnrecordedRefresh \cup AccessAndIdTokens :
          refreshBegin(i, <<>>, <<tok>>, FALSE)
    \/ \E i \in 1..NumRefreshReqs : refreshUser(i)
    \/ \E i \in 1..NumRefreshReqs : refreshWrite(i)
    \/ \E x \in issued : logoutAgent(x.token)
    \/ Tick(Timeline({RefreshTicks}))

SpecRefreshOrigin == InitDev /\ [][NextRefreshOrigin]_vars

\* registration and the login that follows it
EmailCarol == <<"carol", "@", "shelfex.com">>
EmailUpper == <<"Test", "@", "shelfex.com">>
EmailNoAt == <<"dave">>

\* two passwords that agree on their first BcryptMaxBytes bytes
LongPrefix == "0123456789012345678901234567890123456789012345678901234567890123456789ab"
LongA == LongPrefix \o "A"
LongB == LongPrefix \o "B"

\* a taken, a new, a differently cased and an @-less email; a taken and a
\* new username; a long password; a missing email
RegisterBodies ==
    [email : {EmailTest, EmailCarol, EmailUpper, EmailNoAt}, username : {<<>>},
     password : {"pw"}, name : {""}]
    \cup
    [email : {EmailCarol, EmailUpper}, username : {<<"testuser">>, <<"carol">>},
     password : {"pw"}, name : {"Carol"}]
    \cup
    [email : {<<>>, EmailCarol}, username : {<<>>}, password : {LongA}, name : {""}]

RegisterLogins ==
    [identifier : {EmailTest, EmailCarol, EmailNoAt, <<"nobody">>},
     password : {"12345", "pw", LongA, LongB},
     client_id : {""}, redirect_uri : {<<>>}, state : {<<>>}]

RegistersInFlight == {i \in 1..NumRegisterReqs : registerReq[i].pc # "idle"}

\* the model follows at most MaxRegistered registrations
MayRegister ==
    Cardinality(users) + Cardinality(RegistersInFlight)
        < Cardinality(SeedUsers) + MaxRegistered

NextRegister ==
    \/ \E i \in 1..NumRegisterReqs, body \in RegisterBodies :
          MayRegister /\ registerBegin(i, body)
    \/ \E i \in 1..NumRegisterReqs : registerInsert(i)
    \/ \E body \in RegisterLogins : MayLogin /\ login(body)

SpecRegister == InitDev /\ [][NextRegister]_vars

\* registrations with a username, one of them holding an "@"
NameAt == <<"car", "@", "ol">>
UsernameBodies ==
    [email : {EmailCarol, EmailUpper}, username : {<<"carol">>, NameAt},
     password : {"pw"}, name : {"Carol"}]

\* logins by username and by email
UsernameLogins ==
    [identifier : {<<"carol">>, NameAt, <<"testuser">>, EmailCarol, EmailUpper},
     password : {"12345", "pw"},
     client_id : {""}, redirect_uri : {<<>>}, state : {<<>>}]

\* registration with a username and the login that follows it
NextUsername ==
    \/ \E i \in 1..NumRegisterReqs, body \in UsernameBodies :
          MayRegister /\ registerBegin(i, body)
    \/ \E i \in 1..NumRegisterReqs : registerInsert(i)
    \/ \E body \in UsernameLogins : MayLogin /\ login(body)

SpecUsername == InitDev /\ [][NextUsername]_vars

\* protected resources: login, /auth/me, /authorize, the clock
DayTicks == AccessCookieMaxAge * TicksPerSecond

\* the access tokens an agent can present: the one of the session, which
\* it keeps after the cookie has lapsed, and tokens never issued
HeldAccess ==
    {cookies.access_token[i].value : i \in 1..Len(cookies.access_token)}
        \cup ForeignSessions

MeQueries ==
    [client_id : {"shelfscan"}, redirect_uri : {UriLocal},
     response_type : {"code"}, state : {<<>>}]

NextMe ==
    \/ \E body \in {LoginTest, LoginBob} : MayLogin /\ login(body)
    \/ meUA
    \/ \E c \in {<<>>} \cup {<<t>> : t \in HeldAccess},
          b \in {<<>>} \cup {<<t>> : t \in HeldAccess} : me(c, b, FALSE)
    \/ \E q \in MeQueries :
          /\ MayAuthorize(q, SentCookie(cookies, "accounts_session", now))
          /\ authorizeUA(q)
    \/ Tick(Timeline({AccessTicks, DayTicks}))

SpecMe == Init /\ [][NextMe]_vars

-----------------------------------------------------------------------------
(* Properties of POST /oauth/token, checked under Spec *)

\* the request names a registered client and carries that client's secret
GoodCredentials(body) ==
    \E c \in clientApps : c.clientId = body.client_id
                          /\ c.clientSecret.of = body.client_secret

CompleteBody(body) ==
    /\ body.code # "" /\ body.client_id # "" /\ body.client_secret # ""
    /\ body.redirect_uri # <<>> /\ body.grant_type = "authorization_code"

TokenAnswered == last.op = "token"
InFlight == {i \in 1..NumTokenReqs : tokenReq[i].pc # "idle"}

\* C1: of any number of concurrent exchanges of one code exactly one
\* returns tokens: no code is ever exchanged for two refresh tokens
C1_OneExchangePerCode ==
    \A x, y \in issued : (x.code # "" /\ x.code = y.code) => x = y

\* C2: a token request that begins once the code is used never gets past
\* the checks, returns no tokens, and is answered 400 "already used" when
\* its credentials are good and the code is its client's
C2_ReplayFails ==
    /\ \A i \in InFlight : ~tokenReq[i].usedAtStart
    /\ (TokenAnswered /\ last.req.usedAtStart) =>
          /\ last.res.status # 200
          /\ last.res.data = <<>>
          /\ (/\ CompleteBody(last.req.body)
              /\ GoodCredentials(last.req.body)
              /\ \E c \in authCodes : c.code = last.req.body.code
                                      /\ c.clientId = last.req.body.client_id)
             => (last.res.status = 400
                 /\ last.res.message = "Authorization code already used")

\* a replay answered while the code has not yet expired
C2_Witness ==
    /\ TokenAnswered /\ last.req.usedAtStart
    /\ last.res.message = "Authorization code already used"
    /\ last.req.authCode # <<>>
    /\ last.req.readAt <= last.req.authCode[1].expiresAt
    /\ Cardinality(refreshTokens) = 2

\* the row of the request's code, fresh and unexpired when it was read
FreshCodeRead(req) ==
    /\ CompleteBody(req.body) /\ GoodCredentials(req.body)
    /\ req.authCode # <<>>
    /\ ~req.authCode[1].isUsed
    /\ req.readAt <= req.authCode[1].expiresAt

\* C3: an exchange presenting a redirect_uri other than the one the code
\* was bound to is answered 400 "redirect mismatch" and never gets past the
\* checks, also when that URI is registered for the client
C3_RedirectBound ==
    /\ \A i \in InFlight :
          tokenReq[i].authCode[1].redirectUri = tokenReq[i].body.redirect_uri
    /\ (/\ TokenAnswered /\ FreshCodeRead(last.req)
        /\ last.req.authCode[1].redirectUri # last.req.body.redirect_uri)
       => /\ last.res.status = 400
          /\ last.res.message = "Invalid redirect_uri"
          /\ last.res.data = <<>>

\* a mismatch with a URI that is on the client's own list
C3_Witness ==
    /\ TokenAnswered /\ FreshCodeRead(last.req)
    /\ last.req.authCode[1].redirectUri = UriLocal
    /\ last.req.body.redirect_uri = UriScan
    /\ last.req.body.client_id = "shelfscan"
    /\ last.res.message = "Invalid redirect_uri"

\* the code of the request exists, but for another client
OtherClientsCode(body) ==
    \E c \in authCodes : c.code = body.code /\ c.clientId # body.client_id

\* C4: a client presenting its own good credentials and a code issued to
\* another client is answered 400 "unknown code" and never gets past the
\* checks
C4_ClientBound ==
    /\ \A i \in InFlight :
          tokenReq[i].authCode[1].clientId = tokenReq[i].body.client_id
    /\ (/\ TokenAnswered /\ CompleteBody(last.req.body)
        /\ GoodCredentials(last.req.body) /\ OtherClientsCode(last.req.body))
       => /\ last.res.status = 400
          /\ last.res.message = "Invalid authorization code"
          /\ last.res.data = <<>>

C4_Witness ==
    /\ TokenAnswered /\ CompleteBody(last.req.body)
    /\ GoodCredentials(last.req.body) /\ OtherClientsCode(last.req.body)
    /\ last.req.body.client_id = "shelfmuse"
    /\ \E c \in authCodes : c.code = last.req.body.code /\ ~c.isUsed
    /\ last.res.message = "Invalid authorization code"

\* C6: only a request with a registered client's id and that client's
\* secret gets past the checks (where the code is marked and the refresh
\* token inserted) or is answered 200; an unknown client and a wrong secret
\* are both answered 401
C6_CredentialsGate ==
    /\ \A i \in InFlight : GoodCredentials(tokenReq[i].body)
    /\ (TokenAnswered /\ last.res.status = 200) => GoodCredentials(last.req.body)
    /\ (/\ TokenAnswered /\ CompleteBody(last.req.body)
        /\ ~GoodCredentials(last.req.body))
       => /\ last.res.status = 401
          /\ last.res.message = "Invalid client credentials"
          /\ last.res.data = <<>>

\* a registered client with another client's secret, and a fresh code of its
\* own waiting
C6_Witness ==
    /\ TokenAnswered /\ CompleteBody(last.req.body)
    /\ last.req.body.client_id = "shelfscan"
    /\ last.req.body.client_secret = "shelfmuse-secret"
    /\ \E c \in authCodes : c.code = last.req.body.code /\ c.clientId = "shelfscan"
                            /\ ~c.isUsed
    /\ last.res.status = 401

-----------------------------------------------------------------------------
(* Properties of GET /oauth/authorize, checked under SpecAuthorize *)

AuthorizeAnswered == last.op = "authorize"

\* the query has its parameters, names a registered client, and its
\* redirect_uri is, atom for atom, on that client's list
PassesPreChecks(q) ==
    /\ q.client_id # "" /\ q.redirect_uri # <<>> /\ q.response_type = "code"
    /\ \E c \in clientApps :
          /\ c.clientId = q.client_id
          /\ \E i \in 1..Len(c.allowedRedirectUris) :
                c.allowedRedirectUris[i] = q.redirect_uri

\* the request carried a session cookie holding an access token of this
\* provider that had not expired when the request was handled
ValidSession(req) ==
    /\ req.session # <<>>
    /\ req.session[1].secret = ACCESS_TOKEN_SECRET
    /\ req.session[1].iss = Issuer
    /\ req.session[1].aud = Audience
    /\ req.at \div TicksPerSecond < req.session[1].exp

LoginPage == <<"FRONTEND_URL", "/", "login">>

\* C5: a query that fails a check on its parameters, client or redirect URI
\* is answered 400 with no redirect, whatever session it carries, and no
\* code is inserted except by a request that passed those checks
C5_NoUnvalidatedRedirect ==
    /\ [](AuthorizeAnswered /\ ~PassesPreChecks(last.req.query)
            => /\ last.res.status = 400
               /\ last.res.location = <<>>)
    /\ [][authCodes' # authCodes
            => /\ last'.op = "authorize"
               /\ PassesPreChecks(last'.req.query)
               /\ last'.res.status = 302
               /\ \A c \in authCodes' \ authCodes :
                     /\ c.clientId = last'.req.query.client_id
                     /\ c.redirectUri = last'.req.query.redirect_uri]_vars

\* a valid session with a redirect URI that extends a registered one
C5_Witness ==
    /\ AuthorizeAnswered /\ ValidSession(last.req)
    /\ last.req.query.client_id = "shelfscan"
    /\ last.req.query.redirect_uri = UriLonger
    /\ last.req.query.response_type = "code"
    /\ last.res.status = 400

\* C8: after a logout by the user agent it holds none of the three cookies
C8_LogoutClearsCookies ==
    (last.op = "logout" /\ last.req.ua) =>
        \A name \in {"access_token", "refresh_token", "accounts_session"} :
            SentCookie(cookies, name, now) = <<>>

\* the response is the redirect to redirect_uri with a code, and the state
\* if there was one, and auth_codes holds the row of that code
CodeIssued(l) ==
    LET q == l.req.query
        code == searchParamsGet(l.res.location, "code")
    IN  /\ l.res.status = 302
        /\ UrlBase(l.res.location) = q.redirect_uri
        /\ searchParamsGet(l.res.location, "state") = q.state
        /\ q.state = <<>> => ~includes(UrlQuery(l.res.location), "state")
        /\ Len(code) = 1
        /\ \E c \in authCodes :
              /\ c.code = code[1]
              /\ c.userId = l.req.session[1].userId
              /\ c.clientId = q.client_id
              /\ c.redirectUri = q.redirect_uri
              /\ c.expiresAt = l.req.at + AuthCodeMinutes * 60 * TicksPerSecond
              /\ ~c.isUsed

\* C9 as stated: every request that passes the checks and carries a valid
\* session is answered with a code
C9_SessionAlwaysGetsCode ==
    (AuthorizeAnswered /\ PassesPreChecks(last.req.query) /\ ValidSession(last.req))
        => CodeIssued(last)

\* the session's user has a verified email, or verification is not required
PassesEmailPolicy(req) ==
    env.emailVerificationRequired => req.session[1].emailVerified

\* C9: a request that passes the checks and carries a valid session, of a
\* user with a verified email when verification is required, inserts exactly
\* one code row (unused, expiring ten minutes later, bound to the session's
\* user, the client and the redirect URI) and redirects to redirect_uri with
\* that code and the state, if any
C9_SessionGetsCode ==
    /\ []((/\ AuthorizeAnswered /\ PassesPreChecks(last.req.query)
           /\ ValidSession(last.req) /\ PassesEmailPolicy(last.req))
            => CodeIssued(last))
    /\ [][authCodes' # authCodes
            => /\ authCodes \subseteq authCodes'
               /\ Cardinality(authCodes') = Cardinality(authCodes) + 1]_vars

\* single sign-on at a second client, with a state that needs encoding
C9_Witness ==
    /\ AuthorizeAnswered /\ PassesPreChecks(last.req.query)
    /\ ValidSession(last.req) /\ PassesEmailPolicy(last.req)
    /\ last.req.query.client_id = "shelfmuse"
    /\ last.req.query.state = <<"a", "&", "b">>
    /\ CodeIssued(last)

\* C10: a request that passes the checks without a valid session is
\* redirected to the login page with the same client_id, redirect_uri and
\* state
C10_LoginRedirectKeepsQuery ==
    (AuthorizeAnswered /\ PassesPreChecks(last.req.query) /\ ~ValidSession(last.req))
        => /\ last.res.status = 302
           /\ UrlBase(last.res.location) = LoginPage
           /\ searchParamsGet(last.res.location, "client_id")
                 = <<last.req.query.client_id>>
           /\ searchParamsGet(last.res.location, "redirect_uri")
                 = last.req.query.redirect_uri
           /\ searchParamsGet(last.res.location, "state") = last.req.query.state

-----------------------------------------------------------------------------
(* Properties of POST /auth/refresh and /auth/logout, checked under
   SpecSession *)

\* a refresh request was answered that presented a refresh token the
\* provider issued
IssuedRefreshAnswered ==
    /\ last.op = "refresh"
    /\ last.req.tok # <<>>
    /\ \E x \in issued : x.token = last.req.tok[1]

\* the token's record was unrevoked and unexpired when the request came
RecordLive(req) ==
    /\ ~req.storedToken[1].isRevoked
    /\ req.readAt <= req.storedToken[1].expiresAt

\* the token's own exp had not passed on the whole-second clock
JwtLive(req) == req.readAt \div TicksPerSecond < req.tok[1].exp

-----------------------------------------------------------------------------
(* The order of the checks of POST /oauth/token, checked under Spec *)

\* the checks in the order the contract lists them, each with whether the
\* request fails it against the tables `codes` at time t, and its error
TokenFailures(body, codes, t) ==
    LET client == {c \in clientApps : c.clientId = body.client_id}
        rows == {c \in codes : c.code = body.code /\ c.clientId = body.client_id}
    IN  << [fails |-> \/ body.code = "" \/ body.client_id = ""
                      \/ body.client_secret = "" \/ body.redirect_uri = <<>>
                      \/ body.grant_type # "authorization_code",
            error |-> [status |-> 400, message |-> "Invalid token request"]],
           [fails |-> client = {},
            error |-> [status |-> 401, message |-> "Invalid client credentials"]],
           [fails |-> \E c \in client : c.clientSecret.of # body.client_secret,
            error |-> [status |-> 401, message |-> "Invalid client credentials"]],
           [fails |-> rows = {},
            error |-> [status |-> 400, message |-> "Invalid authorization code"]],
           [fails |-> \E r \in rows : r.isUsed,
            error |-> [status |-> 400, message |-> "Authorization code already used"]],
           [fails |-> \E r \in rows : t > r.expiresAt,
            error |-> [status |-> 400, message |-> "Authorization code expired"]],
           [fails |-> \E r \in rows : r.redirectUri # body.redirect_uri,
            error |-> [status |-> 400, message |-> "Invalid redirect_uri"]] >>

\* the error of the earliest failing check: a sequence of 0 or 1 errors
EarliestFailure(body, codes, t) ==
    LET f == TokenFailures(body, codes, t)
        failing == {k \in 1..Len(f) : f[k].fails}
    IN  IF failing = {} THEN <<>>
        ELSE <<f[CHOOSE k \in failing : \A j \in failing : k <= j].error>>

\* C11: a token request is answered with the error of the earliest check it
\* fails, in the order parameters, client, secret, code of this client,
\* used, expired, redirect_uri, user; a failing request changes no table
\* and runs no later step; a request that gets to the read of the user
\* fails none of the first seven checks
C11_EarliestFailureReported ==
    [][ /\ (/\ last' # last /\ last'.op = "token" /\ last'.res.status # 200
            /\ last'.res.message # "User not found")
           => /\ EarliestFailure(last'.req.body, authCodes, now)
                    = <<[status |-> last'.res.status, message |-> last'.res.message]>>
              /\ last'.res.data = <<>>
              /\ UNCHANGED <<users, authCodes, refreshTokens, issued, tokenReq>>
        /\ (/\ last' # last /\ last'.op = "token"
            /\ last'.res.message = "User not found")
           => /\ ~\E u \in users : u.id = last'.req.authCode[1].userId
              /\ UNCHANGED <<users, authCodes, refreshTokens, issued>>
        /\ \A i \in 1..NumTokenReqs :
              (tokenReq[i].pc = "idle" /\ tokenReq'[i].pc = "user")
                 => EarliestFailure(tokenReq'[i].body, authCodes, now) = <<>>
      ]_vars

\* a replay, after the code's expiry, with another redirect URI of the
\* client: three checks fail and the first of them is reported
C11_Witness ==
    /\ TokenAnswered /\ last.req.authCode # <<>>
    /\ last.res.message = "Authorization code already used"
    /\ last.req.readAt > last.req.authCode[1].expiresAt
    /\ last.req.body.redirect_uri # last.req.authCode[1].redirectUri

-----------------------------------------------------------------------------
(* The expiry of authorization codes, checked under Spec *)

\* a request that fails no check other than, possibly, the expiry of its code
ValidButForExpiry(req) ==
    /\ CompleteBody(req.body) /\ GoodCredentials(req.body)
    /\ req.authCode # <<>>
    /\ ~req.authCode[1].isUsed
    /\ req.authCode[1].redirectUri = req.body.redirect_uri
    /\ \E u \in users : u.id = req.authCode[1].userId

\* C12: an otherwise valid exchange that reads its code at t <= expiresAt
\* returns tokens, and one that reads it at t > expiresAt is answered 400
\* "expired" with no tokens; no request that read the code after its expiry
\* is in flight, and a code is marked used only by a request that read it
\* no later than its expiry, so an expired unused code stays unused
C12_ExpiryBoundary ==
    /\ [](\A i \in InFlight :
             tokenReq[i].readAt <= tokenReq[i].authCode[1].expiresAt)
    /\ []((TokenAnswered /\ ValidButForExpiry(last.req))
            => IF last.req.readAt <= last.req.authCode[1].expiresAt
               THEN last.res.status = 200 /\ last.res.data # <<>>
               ELSE /\ last.res.status = 400
                    /\ last.res.message = "Authorization code expired"
                    /\ last.res.data = <<>>)
    /\ [][\A c \in authCodes :
             (~c.isUsed /\ [c EXCEPT !.isUsed = TRUE] \in authCodes')
                => \E i \in 1..NumTokenReqs :
                      /\ tokenReq[i].pc = "mark"
                      /\ tokenReq[i].body.code = c.code
                      /\ tokenReq[i].readAt <= c.expiresAt]_vars
    /\ [](\A c \in authCodes :
             c.expiresAt - AuthCodeMinutes * 60 * TicksPerSecond \in 0..now)

\* an exchange at the very instant of the code's expiry returns tokens
C12_Witness ==
    /\ TokenAnswered /\ ValidButForExpiry(last.req)
    /\ last.req.readAt = last.req.authCode[1].expiresAt
    /\ last.res.status = 200

\* an exchange one tick after the expiry is refused and the code is unused
C12_WitnessLate ==
    /\ TokenAnswered /\ ValidButForExpiry(last.req)
    /\ last.req.readAt = last.req.authCode[1].expiresAt + 1
    /\ last.res.message = "Authorization code expired"
    /\ \A c \in authCodes : ~c.isUsed

-----------------------------------------------------------------------------
(* Properties of login and register, checked under SpecRegister *)

LoginAnswered == last.op = "login"
LoginSucceeded == last.res.status \in {200, 302}

\* the password the user of row u chose
PasswordOf(u) == (CHOOSE c \in credentials : c.id = u.id).password

\* C13: a login with a registered email and any password other than that
\* user's is answered 401 "Invalid credentials", the same answer as for an
\* identifier nobody holds
C13_WrongPasswordRejected ==
    (LoginAnswered /\ last.req.identifier # <<>> /\ last.req.password # "")
       => /\ \A u \in users :
                (u.email = last.req.identifier /\ last.req.password # PasswordOf(u))
                   => /\ last.res.status = 401
                      /\ last.res.message = "Invalid credentials"
          /\ (~\E u \in users : \/ u.email = last.req.identifier
                                  \/ u.username = last.req.identifier)
                => /\ last.res.status = 401
                   /\ last.res.message = "Invalid credentials"

\* C14: registration followed by a login with the same email and password
\* succeeds: every login that presents the email of a user and the password
\* that user registered with is answered with success
C14_RegisterThenLogin ==
    (LoginAnswered /\ \E u \in users : /\ u.email = last.req.identifier
                                        /\ last.req.password = PasswordOf(u))
       => LoginSucceeded

RegisterAnswered == last.op = "register"

\* C15: of concurrent registrations with the same email or username at
\* most one row is ever inserted, and every complete registration is
\* answered either 201 or with the 409 conflict error
C15_LoserGetsConflict ==
    /\ \A u, v \in users :
          (u.email = v.email \/ (u.username # <<>> /\ u.username = v.username))
             => u = v
    /\ (/\ RegisterAnswered
        /\ last.req.email # <<>> /\ last.req.password # "")
       => last.res.status \in {201, 409}

\* letter case folded away, atom by atom
LowerAtom(a) ==
    CASE a = "Test"  -> "test"
      [] a = "TEST"  -> "test"
      [] a = "Carol" -> "carol"
      [] OTHER       -> a

toLowerCase(s) == [i \in 1..Len(s) |-> LowerAtom(s[i])]

\* C16: no two users hold emails that are equal up to letter case
C16_EmailsUniqueUpToCase ==
    \A u, v \in users :
        toLowerCase(u.email) = toLowerCase(v.email) => u = v

-----------------------------------------------------------------------------
(* The refresh record of a login and of a code exchange, checked under Spec *)

\* row r is what a session begun at time t for user id `uid` with refresh
\* token `tok` must leave in refresh_tokens
RecordOf(r, tok, uid, t) ==
    /\ r.tokenHash = [alg |-> "sha256", of |-> tok]
    /\ r.userId = uid
    /\ r.expiresAt = t + 30 * 24 * 60 * 60 * TicksPerSecond
    /\ r.isRevoked = FALSE

-----------------------------------------------------------------------------
(* Refresh without rotation, checked under SpecSession *)

\* the token of the request had been refreshed successfully before
UsedBefore(req) == req.storedToken[1].lastUsedAt >= 0

-----------------------------------------------------------------------------
(* The writes of refresh, checked under SpecSession *)

\* the request in slot i passed every check of refresh when it was read
PassedRefreshChecks(slot) ==
    /\ slot.tok # <<>>
    /\ slot.tok[1].secret = REFRESH_TOKEN_SECRET /\ slot.tok[1].iss = Issuer
    /\ slot.readAt \div TicksPerSecond < slot.tok[1].exp
    /\ slot.storedToken # <<>>
    /\ ~slot.storedToken[1].isRevoked
    /\ slot.readAt <= slot.storedToken[1].expiresAt
    /\ slot.user # <<>>

\* C19: a failing refresh changes no table, lastUsedAt included; a
\* successful one changes nothing but lastUsedAt of the record whose
\* tokenHash is the digest of the presented token; and lastUsedAt is
\* written only for a request that passed every check
C19_RefreshFrame ==
    [][ /\ (last' # last /\ last'.op = "refresh" /\ last'.res.status # 200)
           => UNCHANGED <<users, authCodes, refreshTokens>>
        /\ (last' # last /\ last'.op = "refresh" /\ last'.res.status = 200)
           => /\ UNCHANGED <<users, authCodes>>
              /\ refreshTokens' =
                    {IF r.tokenHash = [alg |-> "sha256", of |-> last'.req.tok[1]]
                     THEN [r EXCEPT !.lastUsedAt = now] ELSE r : r \in refreshTokens}
        /\ \A r \in refreshTokens, r2 \in refreshTokens' :
              (r2.tokenHash = r.tokenHash /\ r2.lastUsedAt # r.lastUsedAt)
                 => \E i \in 1..NumRefreshReqs :
                       /\ refreshReq[i].pc = "write"
                       /\ PassedRefreshChecks(refreshReq[i])
                       /\ r.tokenHash = [alg |-> "sha256", of |-> refreshReq[i].tok[1]]
      ]_vars

\* a refresh refused for a revoked token whose record was never used
C19_Witness ==
    /\ IssuedRefreshAnswered
    /\ last.res.status = 401
    /\ last.res.message = "Refresh token has been revoked"
    /\ \A r \in refreshTokens : r.lastUsedAt = -1

\* the presented refresh token fails the verification of its JWT
BadRefreshJwt(req) ==
    /\ req.tok # <<>>
    /\ \/ req.tok[1].secret # REFRESH_TOKEN_SECRET
       \/ req.tok[1].iss # Issuer
       \/ req.readAt \div TicksPerSecond >= req.tok[1].exp

\* C20: a refresh whose token has a bad signature, a wrong issuer or a
\* passed exp is answered 401 and no other status
C20_BadJwtGets401 ==
    (last.op = "refresh" /\ BadRefreshJwt(last.req)) => last.res.status = 401

-----------------------------------------------------------------------------
(* Logout, checked under SpecSession *)

\* the table `rows` with the record of token `tok`, if any, revoked
RevokedBy(rows, tok) ==
    {IF r.tokenHash = [alg |-> "sha256", of |-> tok]
     THEN [r EXCEPT !.isRevoked = TRUE] ELSE r : r \in rows}

LogoutStep ==
    /\ last'.op = "logout"
    /\ (last' # last \/ refreshTokens' # refreshTokens \/ cookies' # cookies)

\* C21: logout is answered 200 whether the token it presents has a record,
\* has none, is already revoked, or is missing; it does nothing to the
\* store but revoke the record of the presented token, and revoking a
\* token a second time leaves the store as the first revocation left it
C21_LogoutIdempotent ==
    [][LogoutStep
         => /\ last'.res.status = 200
            /\ refreshTokens' =
                  IF last'.req.cookie = <<>> THEN refreshTokens
                  ELSE RevokedBy(refreshTokens, last'.req.cookie[1])
            /\ last'.req.cookie # <<>>
                  => RevokedBy(refreshTokens', last'.req.cookie[1]) = refreshTokens'
            /\ UNCHANGED <<users, authCodes>>]_vars

\* a logout that presented a token no record holds, answered 200
C21_Witness ==
    /\ last.op = "logout" /\ last.res.status = 200
    /\ last.req.cookie # <<>>
    /\ refreshTokens # {}
    /\ ~\E r \in refreshTokens :
           r.tokenHash = [alg |-> "sha256", of |-> last.req.cookie[1]]

\* a logout of a token that an earlier logout had revoked: the user agent
\* logged out and then another holder of the token did
C21_WitnessTwice ==
    /\ last.op = "logout" /\ last.res.status = 200
    /\ ~last.req.ua /\ last.req.cookie # <<>>
    /\ cookies.refresh_token = <<>>
    /\ \E r \in refreshTokens :
          /\ r.tokenHash = [alg |-> "sha256", of |-> last.req.cookie[1]]
          /\ r.isRevoked

\* C22: a logout that carries the refresh token in the request body only
\* revokes the record of that token
C22_BodyLogoutRevokes ==
    (last.op = "logout" /\ last.req.cookie = <<>> /\ last.req.body # <<>>)
       => \A r \in refreshTokens :
             r.tokenHash = [alg |-> "sha256", of |-> last.req.body[1]]
                => r.isRevoked

-----------------------------------------------------------------------------
(* What the store holds of a refresh token, checked under Spec *)

\* C23: no row of refresh_tokens holds a refresh token that was handed
\* out: a row has the columns of the schema and its tokenHash is the
\* SHA-256 digest of an issued token, while the token itself is found in
\* the responses and the cookie only
C23_OnlyDigestsStored ==
    \A r \in refreshTokens :
        /\ r.tokenHash \notin {x.token : x \in issued}
        /\ DOMAIN r = {"userId", "tokenHash", "expiresAt", "isRevoked", "lastUsedAt"}
        /\ r.tokenHash.alg = "sha256"
        /\ \E x \in issued : r.tokenHash.of = x.token

\* the records of a login and of a code exchange, the login's token in
\* the cookie and the exchange's token in the response
C23_Witness ==
    /\ TokenAnswered /\ last.res.status = 200
    /\ cookies.refresh_token # <<>>
    /\ cookies.refresh_token[1].value \in {x.token : x \in issued}
    /\ last.res.data[1].refresh_token \in {x.token : x \in issued}
    /\ \E r1, r2 \in refreshTokens :
          /\ r1.tokenHash.of = cookies.refresh_token[1].value
          /\ r2.tokenHash.of = last.res.data[1].refresh_token
          /\ r1 # r2

\* C25: the expires_in of a token response is the lifetime in seconds of
\* the access token of that response: the token passes verification up to
\* expires_in seconds after it was signed
C25_ExpiresInIsLifetime ==
    (TokenAnswered /\ last.res.status = 200)
       => LET data == last.res.data[1]
          IN  /\ data.access_token.exp - data.access_token.iat = data.expires_in
              /\ \A t \in {now, (data.access_token.iat + data.expires_in)
                                    * TicksPerSecond - 1} :
                    verifyAccessToken(data.access_token, t) = "ok"

-----------------------------------------------------------------------------
(* Access tokens at the protected endpoint, checked under SpecMe *)

MeAnswered == last.op = "me"

\* the one token of a request that carries no cookie
BearerOnly(req) == req.cookie = <<>> /\ req.bearer # <<>>

\* signed with the provider's key, for its issuer and audience
ProvidersToken(tok) ==
    tok.secret = ACCESS_TOKEN_SECRET /\ tok.iss = Issuer /\ tok.aud = Audience

\* C24: an access token of the provider passes verification at every time
\* up to one day after it was signed: up to then no request presenting it
\* is refused as expired
C24_AccessValidForADay ==
    (/\ MeAnswered /\ BearerOnly(last.req)
     /\ ProvidersToken(last.req.bearer[1])
     /\ last.req.at <= (last.req.bearer[1].iat + 24 * 60 * 60) * TicksPerSecond)
       => /\ last.res.status # 401
          /\ last.res.message # "Token expired"

\* C26: a correctly signed, unexpired token with the wrong issuer or
\* audience is answered with an error other than the one a badly signed
\* token gets
C26_MismatchDistinctFromMalformed ==
    (/\ MeAnswered /\ BearerOnly(last.req)
     /\ last.req.bearer[1].secret = ACCESS_TOKEN_SECRET
     /\ last.req.at \div TicksPerSecond < last.req.bearer[1].exp
     /\ (last.req.bearer[1].iss # Issuer \/ last.req.bearer[1].aud # Audience))
       => \A bad \in {x \in ForeignSessions : x.secret # ACCESS_TOKEN_SECRET} :
             authMiddleware(<<>>, <<bad>>, env, last.req.at).res # <<last.res>>

\* the token passes verification at the time of the request
VerifiesAt(tok, t) == ProvidersToken(tok) /\ t \div TicksPerSecond < tok.exp

\* C27: /auth/me decides on the access_token cookie when the request has
\* one and on the Bearer token only when it has none: with an invalid
\* cookie the answer is 401 whatever the Bearer token, and with a valid
\* cookie the request is accepted whatever the Bearer token
C27_CookieBeforeBearer ==
    MeAnswered =>
        LET req == last.req
            chosen == IF req.cookie # <<>> THEN req.cookie ELSE req.bearer
        IN  IF chosen = <<>> \/ ~VerifiesAt(chosen[1], req.at)
            THEN last.res.status = 401
            ELSE /\ last.res.status \in {200, 403}
                 /\ last.res.status = 200
                       => last.res.data[1].id = chosen[1].userId

\* an invalid cookie with a valid Bearer token, refused
C27_Witness ==
    /\ MeAnswered
    /\ last.req.cookie # <<>> /\ last.req.bearer # <<>>
    /\ ~VerifiesAt(last.req.cookie[1], last.req.at)
    /\ VerifiesAt(last.req.bearer[1], last.req.at)
    /\ last.res.status = 401

\* a valid cookie with an invalid Bearer token, accepted
C27_WitnessAccepted ==
    /\ MeAnswered
    /\ last.req.cookie # <<>> /\ last.req.bearer # <<>>
    /\ VerifiesAt(last.req.cookie[1], last.req.at)
    /\ ~VerifiesAt(last.req.bearer[1], last.req.at)
    /\ last.res.status = 200

\* the session of the request is refused by the email-verification policy
Unverified(tok) == env.emailVerificationRequired /\ ~tok.emailVerified

\* C28: with email verification required, a valid session whose token has
\* emailVerified = false gets 403 from /auth/me and from /oauth/authorize,
\* which then inserts no code and names no redirect; with verification
\* not required, or a verified session, both let the session pass
C28_VerificationGates ==
    /\ [](MeAnswered =>
             LET chosen == IF last.req.cookie # <<>> THEN last.req.cookie
                           ELSE last.req.bearer
             IN  (chosen # <<>> /\ VerifiesAt(chosen[1], last.req.at))
                    => IF Unverified(chosen[1])
                       THEN /\ last.res.status = 403
                            /\ last.res.data = <<>>
                       ELSE last.res.status = 200)
    /\ []((/\ last.op = "authorize" /\ last.req.session # <<>>
            /\ VerifiesAt(last.req.session[1], last.req.at)
            /\ last.req.query \in MeQueries)
            => IF Unverified(last.req.session[1])
               THEN /\ last.res.status = 403
                    /\ last.res.location = <<>>
               ELSE /\ last.res.status = 302
                    /\ UrlBase(last.res.location) = last.req.query.redirect_uri
                    /\ \E c \in authCodes :
                          /\ searchParamsGet(last.res.location, "code") = <<c.code>>
                          /\ c.userId = last.req.session[1].userId)
    /\ [][(last' # last /\ last'.op = "authorize" /\ last'.res.status = 403)
            => UNCHANGED authCodes]_vars
    /\ [](env.emailVerificationRequired
            => \A c \in authCodes :
                  \A u \in users : u.id = c.userId => u.emailVerified)

\* the unverified user's session refused by /auth/me
C28_Witness ==
    /\ MeAnswered /\ last.res.status = 403
    /\ last.req.cookie # <<>>
    /\ ~last.req.cookie[1].emailVerified
    /\ env.emailVerificationRequired

\* the unverified user's session refused by /oauth/authorize
C28_WitnessAuthorize ==
    /\ last.op = "authorize" /\ last.res.status = 403
    /\ ~last.req.session[1].emailVerified
    /\ authCodes = {}

\* the same session let through when verification is not required
C28_WitnessDisabled ==
    /\ MeAnswered /\ last.res.status = 200
    /\ last.req.cookie # <<>>
    /\ ~last.req.cookie[1].emailVerified
    /\ ~env.emailVerificationRequired

\* the rows of the store that hold the digest of `tok` are revoked
RevokedInStore(tok) ==
    \A r \in refreshTokens : r.tokenHash = [alg |-> "sha256", of |-> tok] => r.isRevoked

\* the refresh token of the request passed the JWT verification when the
\* handler ran, so the handler went on to read its record
RecordRead(req) == req.tok # <<>> /\ ~BadRefreshJwt(req)

\* C29: revoking twice is revoking once; a refresh goes past its checks only
\* on a record it read unrevoked, so one that reads the record after a
\* logout has written it is answered 401 "revoked"; a refresh answered 200
\* read its record unrevoked; and no step of refresh or logout, in any
\* order, makes a revoked record valid again
C29_RefreshRacesRevocation ==
    /\ [](\A x \in issued :
             LET h == [alg |-> "sha256", of |-> x.token]
             IN  markRevoked(markRevoked(refreshTokens, h), h)
                    = markRevoked(refreshTokens, h))
    /\ [][\A i \in 1..NumRefreshReqs :
             (refreshReq[i].pc = "idle" /\ refreshReq'[i].pc # "idle")
                => \E r \in refreshTokens :
                      /\ r.tokenHash = [alg |-> "sha256", of |-> refreshReq'[i].tok[1]]
                      /\ ~r.isRevoked
                      /\ refreshReq'[i].storedToken = <<r>>]_vars
    /\ []((/\ last.op = "refresh" /\ RecordRead(last.req)
            /\ last.req.storedToken # <<>>
            /\ last.req.storedToken[1].isRevoked)
            => last.res = Json(401, "Refresh token has been revoked"))
    /\ []((last.op = "refresh" /\ last.res.status = 200)
            => /\ last.req.storedToken # <<>>
               /\ ~last.req.storedToken[1].isRevoked)
    /\ [][\A r \in refreshTokens : r.isRevoked =>
             \E r2 \in refreshTokens' : r2.tokenHash = r.tokenHash /\ r2.isRevoked]_vars

\* the race: a refresh that read its record before the logout wrote it is
\* answered 200 after the logout, and the record is revoked
C29_Witness ==
    /\ last.op = "refresh" /\ last.res.status = 200
    /\ ~last.req.storedToken[1].isRevoked
    /\ RevokedInStore(last.req.tok[1])
    /\ \A i \in 1..NumRefreshReqs : refreshReq[i].pc = "idle"

\* a refresh that read the record after the logout is refused as revoked
C29_WitnessLate ==
    /\ last.op = "refresh"
    /\ last.res = Json(401, "Refresh token has been revoked")
    /\ RecordRead(last.req)
    /\ last.req.storedToken[1].isRevoked

\* a token request still on its way to the insert for the code `c`
ExchangeInFlight(c) ==
    \E i \in 1..NumTokenReqs : tokenReq[i].pc = "issue" /\ tokenReq[i].body.code = c

\* C30: no request that fails leaves a write behind: a code marked used has
\* a refresh record inserted and tokens returned for it once the exchange
\* has ended, the step that answers a token request with an error writes
\* nothing, and a login answered with an error inserts no record
C30_NoPartialWrites ==
    /\ [](\A c \in authCodes :
             c.isUsed => \/ \E x \in issued : x.code = c.code
                         \/ ExchangeInFlight(c.code))
    /\ [][(last' # last /\ last'.op = "token" /\ last'.res.status # 200)
            => UNCHANGED <<authCodes, refreshTokens>>]_vars
    /\ [][(last' # last /\ last'.op = "login" /\ last'.res.status >= 400)
            => UNCHANGED <<refreshTokens, cookies>>]_vars

AuthorizePath == <<"/api/v1/oauth/authorize">>

\* the body of an OAuth login read as the query of /oauth/authorize
AsQuery(body) ==
    [client_id |-> body.client_id, redirect_uri |-> body.redirect_uri,
     response_type |-> "code", state |-> body.state]

\* C31: a successful login with client_id and redirect_uri is answered 302
\* to /oauth/authorize with the same client_id, redirect_uri and state and
\* response_type=code, one without them 200; and when the client and the
\* redirect URI are registered, the user agent that follows the redirect
\* with the session cookie just set gets a code and a redirect to
\* redirect_uri (unless the email-verification gate refuses the user)
C31_ColdStartCompletes ==
    /\ []((LoginAnswered /\ LoginSucceeded) =>
             IF last.req.client_id # "" /\ last.req.redirect_uri # <<>>
             THEN /\ last.res.status = 302
                  /\ UrlBase(last.res.location) = AuthorizePath
                  /\ parseQuery(last.res.location) = AsQuery(last.req)
             ELSE /\ last.res.status = 200
                  /\ last.res.location = <<>>)
    /\ [][(/\ last.op = "login" /\ last.res.status = 302
            /\ last'.op = "authorize"
            /\ PassesPreChecks(AsQuery(last.req))
            /\ ValidSession(last'.req)
            /\ ~Unverified(last'.req.session[1]))
            => /\ last'.res.status = 302
               /\ UrlBase(last'.res.location) = last.req.redirect_uri
               /\ \E c \in authCodes' \ authCodes :
                     searchParamsGet(last'.res.location, "code") = <<c.code>>]_vars

\* the plaintext secret the client `clientId` was provisioned with
SecretOf(clientId) ==
    (CHOOSE c \in clientApps : c.clientId = clientId).clientSecret.of

\* the fully valid token request for the code row `c`
ValidBodyFor(c) ==
    [code |-> c.code, client_id |-> c.clientId, client_secret |-> SecretOf(c.clientId),
     redirect_uri |-> c.redirectUri, grant_type |-> "authorization_code"]

\* this step answers a token request with an error
TokenRefusedStep == last' # last /\ last'.op = "token" /\ last'.res.status # 200

\* C32: the step that refuses a token request at a validation check writes
\* nothing, and after it the fully valid request for every code that was
\* unused and unexpired before it still passes every check
C32_FailedExchangeWritesNothing ==
    /\ [][TokenRefusedStep
            => UNCHANGED <<authCodes, refreshTokens, users, issued, cookies>>]_vars
    /\ [][TokenRefusedStep
            => \A c \in authCodes :
                  (~c.isUsed /\ now <= c.expiresAt)
                     => tokenCheck(ValidBodyFor(c), authCodes', now').res = <<>>]_vars

\* a request refused for its redirect_uri has left the code exchangeable
C32_Witness ==
    /\ last.op = "token"
    /\ last.res = Json(400, "Invalid redirect_uri")
    /\ \E c \in authCodes :
          /\ c.code = last.req.body.code /\ ~c.isUsed
          /\ tokenCheck(ValidBodyFor(c), authCodes, now).res = <<>>

\* a request refused for its client secret has left the code exchangeable
C32_WitnessSecret ==
    /\ last.op = "token"
    /\ last.res = Json(401, "Invalid client credentials")
    /\ \E c \in authCodes :
          /\ c.code = last.req.body.code /\ ~c.isUsed
          /\ tokenCheck(ValidBodyFor(c), authCodes, now).res = <<>>

\* C33: in every step, of any operation in any interleaving, a code that is
\* used stays used and a refresh record that is revoked stays revoked: the
\* row is still there and no row of that code or digest has the flag off
C33_FlagsMonotonic ==
    /\ [][\A c \in authCodes : c.isUsed =>
             /\ \E c2 \in authCodes' : c2.code = c.code
             /\ \A c2 \in authCodes' : c2.code = c.code => c2.isUsed]_vars
    /\ [][\A r \in refreshTokens : r.isRevoked =>
             /\ \E r2 \in refreshTokens' : r2.tokenHash = r.tokenHash
             /\ \A r2 \in refreshTokens' : r2.tokenHash = r.tokenHash => r2.isRevoked]_vars

\* a refresh has written lastUsedAt on a record revoked while it ran, the
\* record is still revoked, and a code has been used
C33_Witness ==
    /\ last.op = "refresh" /\ last.res.status = 200
    /\ \E r \in refreshTokens :
          /\ r.tokenHash = [alg |-> "sha256", of |-> last.req.tok[1]]
          /\ r.isRevoked
          /\ r.lastUsedAt >= last.req.readAt
    /\ \E c \in authCodes : c.isUsed

\* C34: a logout changes no refresh record but the one whose tokenHash is
\* the digest of the token it presents; every other token issued, of the
\* same user or not, passes or fails the checks of refresh after the
\* logout exactly as before it
C34_LogoutRevokesOnlyPresented ==
    [][LogoutStep =>
         LET sent == last'.req.cookie
         IN  /\ \A r \in refreshTokens :
                   (sent = <<>> \/ r.tokenHash # [alg |-> "sha256", of |-> sent[1]])
                      => r \in refreshTokens'
             /\ \A x \in issued :
                   (sent = <<>> \/ x.token # sent[1])
                      => refreshCheck(<<x.token>>, refreshTokens', now')
                            = refreshCheck(<<x.token>>, refreshTokens, now)]_vars

\* after the logout of one session, another session of the same user has
\* its record unrevoked and passes the checks of refresh
C34_Witness ==
    /\ last.op = "logout" /\ last.req.cookie # <<>>
    /\ RevokedInStore(last.req.cookie[1])
    /\ \E x \in issued :
          /\ x.token # last.req.cookie[1]
          /\ x.token.userId = last.req.cookie[1].userId
          /\ refreshCheck(<<x.token>>, refreshTokens, now).res = <<>>
          /\ \E r \in refreshTokens :
                r.tokenHash = [alg |-> "sha256", of |-> last.req.cookie[1]]

\* C35: every auth_codes row names a registered client and a redirect URI
\* that is, atom for atom, on that client's list; and a row is inserted
\* only by an /authorize request whose session token verified when the
\* request was handled, for the user that token names
C35_CodeRowsWellFormed ==
    /\ [](\A c \in authCodes :
             \E cl \in clientApps :
                /\ cl.clientId = c.clientId
                /\ \E i \in 1..Len(cl.allowedRedirectUris) :
                      cl.allowedRedirectUris[i] = c.redirectUri)
    /\ [][\A c \in authCodes' \ authCodes :
             /\ last'.op = "authorize"
             /\ ValidSession(last'.req)
             /\ c.userId = last'.req.session[1].userId
             /\ \E u \in users : u.id = c.userId]_vars

\* a code row has been inserted for the session that asked for it
C35_Witness ==
    /\ last.op = "authorize" /\ last.res.status = 302
    /\ \E c \in authCodes :
          /\ searchParamsGet(last.res.location, "code") = <<c.code>>
          /\ c.userId = last.req.session[1].userId
          /\ c.clientId = last.req.query.client_id

\* the token `tok` names the user row `u`
Names(tok, u) == tok.userId = u.id

\* C36: a code row is inserted for the user of the session that asked for
\* it and keeps that user; the access, refresh and ID tokens of a
\* successful exchange, and the owner of the refresh record inserted for
\* it, are that user, with that user's email in the access and ID tokens
C36_IdentityCarriedThrough ==
    /\ [][\A c \in {x \in authCodes' : \A o \in authCodes : o.code # x.code} :
             /\ last'.op = "authorize"
             /\ ValidSession(last'.req)
             /\ c.userId = last'.req.session[1].userId]_vars
    /\ [][\A c \in authCodes :
             \E c2 \in authCodes' : c2.code = c.code /\ c2.userId = c.userId]_vars
    /\ []((TokenAnswered /\ last.res.status = 200) =>
             LET d == last.res.data[1]
             IN  \E c \in authCodes :
                   /\ c.code = last.req.body.code
                   /\ \E u \in users :
                         /\ u.id = c.userId
                         /\ Names(d.access_token, u) /\ d.access_token.email = u.email
                         /\ Names(d.id_token, u) /\ d.id_token.email = u.email
                         /\ Names(d.refresh_token, u)
                         /\ \E r \in refreshTokens :
                               /\ r.tokenHash = [alg |-> "sha256", of |-> d.refresh_token]
                               /\ r.userId = u.id)

\* the code obtained by the unverified user's session has been exchanged
\* for tokens that name that user
C36_Witness ==
    /\ TokenAnswered /\ last.res.status = 200
    /\ last.res.data[1].access_token.email = EmailBob
    /\ last.res.data[1].refresh_token.userId = last.req.authCode[1].userId
    /\ cookies.accounts_session # <<>>
    /\ cookies.accounts_session[1].value.email = EmailBob

\* the record that holds the digest of `tok`, as a set of 0 or 1 rows
RecordsOf(tok) == {r \in refreshTokens : r.tokenHash = [alg |-> "sha256", of |-> tok]}

\* C37: a refresh answered 200 presented a token that a login or a code
\* exchange issued and recorded, and the access token it returns names the
\* owner of that record; a refresh is in flight only for a recorded token;
\* and a token that had no record when the handler looked is answered
\* with an error and no access token
C37_RefreshOnlyForRecorded ==
    /\ []((last.op = "refresh" /\ last.res.status = 200) =>
             /\ \E x \in issued : x.token = last.req.tok[1]
             /\ RecordsOf(last.req.tok[1]) # {}
             /\ \A r \in RecordsOf(last.req.tok[1]) :
                   last.res.data[1].accessToken.userId = r.userId)
    /\ [](\A i \in 1..NumRefreshReqs :
             refreshReq[i].pc # "idle" =>
                /\ RecordsOf(refreshReq[i].tok[1]) # {}
                /\ \E x \in issued : x.token = refreshReq[i].tok[1])
    /\ []((last.op = "refresh" /\ last.req.tok # <<>>
            /\ RecordsOf(last.req.tok[1]) = {})
            => /\ last.res.status >= 400
               /\ last.res.data = <<>>)

\* a refresh JWT with a good signature and no record is refused while the
\* same user has a live session
C37_Witness ==
    /\ last.op = "refresh"
    /\ last.res = Json(401, "Invalid refresh token")
    /\ last.req.tok[1] \in UnrecordedRefresh
    /\ \E r \in refreshTokens : r.userId = last.req.tok[1].userId /\ ~r.isRevoked

\* an access token presented as a refresh token is refused
C37_WitnessAccess ==
    /\ last.op = "refresh"
    /\ last.req.tok # <<>>
    /\ last.req.tok[1] \in AccessAndIdTokens
    /\ last.res.status >= 400
    /\ refreshTokens # {}

\* an issued token is refreshed
C37_WitnessIssued ==
    /\ last.op = "refresh" /\ last.res.status = 200
    /\ \E x \in issued : x.token = last.req.tok[1]

\* C38: a login whose identifier is the username, or the email, of a user
\* and whose password is that user's password succeeds
C38_LoginByUsernameOrEmail ==
    (LoginAnswered /\ \E u \in users :
                         /\ \/ u.username = last.req.identifier
                            \/ u.email = last.req.identifier
                         /\ last.req.password = PasswordOf(u))
       => LoginSucceeded

====
